---- MODULE Spec2Model ----
(***************************************************************************)
(* Series detection and series tagging of backend/api/tracks.py.           *)
(*                                                                         *)
(* Text is modelled character by character: a string is a sequence of      *)
(* one-character strings, a regular expression is a syntax tree matched by *)
(* a backtracking matcher that keeps Python's priority order (ordered      *)
(* alternatives, greedy repetition, leftmost match).                       *)
(***************************************************************************)
EXTENDS Integers, Sequences, FiniteSets, TLC

VARIABLES
    tracks,        \* the tracks table, in row order: a sequence of Track rows
    tagging_jobs,  \* tagging_jobs: job_id -> job status dict
    settings,      \* min_duration_minutes of the saved settings
    call,          \* the read request in flight (detect_series, get_tagged_series)
    sim,           \* a similarity_score evaluation: its arguments and result
    background     \* the background tasks: job_id -> the locals of the task

vars == <<tracks, tagging_jobs, settings, call, sim, background>>

(***************************************************************************)
(* Characters and strings                                                  *)
(***************************************************************************)
LowerChars == <<"a","b","c","d","e","f","g","h","i","j","k","l","m",
                "n","o","p","q","r","s","t","u","v","w","x","y","z">>
UpperChars == <<"A","B","C","D","E","F","G","H","I","J","K","L","M",
                "N","O","P","Q","R","S","T","U","V","W","X","Y","Z">>
DigitChars == <<"0","1","2","3","4","5","6","7","8","9">>
OtherChars == <<" ","_","-",".","(",")","[","]","#",":","/",",","'","&">>

SeqRange(s) == {s[i] : i \in DOMAIN s}

Letters  == SeqRange(LowerChars) \cup SeqRange(UpperChars)
Digits   == SeqRange(DigitChars)
Alphabet == Letters \cup Digits \cup SeqRange(OtherChars)
\* \s, \d and \w of Python's re on str patterns, within the alphabet
ClsSpace == {" "}
ClsDigit == Digits
ClsWord  == Letters \cup Digits \cup {"_"}

\* The Python value None, where a str is expected.  It is not a string of the
\* alphabet, so it differs from every string, the empty one included.
None == <<"None">>

\* Python truthiness of an Optional[str]
Truthy(x) == x /= None /\ x /= <<>>

\* x or y
OrElse(x, y) == IF Truthy(x) THEN x ELSE y

\* str.lower() on one character
LowerChar(c) ==
    IF c \in SeqRange(UpperChars)
    THEN LowerChars[CHOOSE i \in DOMAIN UpperChars : UpperChars[i] = c]
    ELSE c

\* str.lower()
StrLower(s) == [i \in DOMAIN s |-> LowerChar(s[i])]

\* the characters of s that are in keep, in order
FilterChars(s, keep) == SelectSeq(s, LAMBDA c : c \in keep)

\* str.strip(): without the leading and trailing whitespace
Strip(s) ==
    LET inked == {i \in DOMAIN s : s[i] \notin ClsSpace}
    IN  IF inked = {} THEN <<>>
        ELSE SubSeq(s, CHOOSE i \in inked : \A j \in inked : i <= j,
                       CHOOSE i \in inked : \A j \in inked : i >= j)

\* s.startswith(p)
StartsWith(s, p) == Len(p) <= Len(s) /\ SubSeq(s, 1, Len(p)) = p

\* str.split(): the maximal runs of non-whitespace characters, in order
Split(s) ==
    LET starts == {i \in DOMAIN s :
                     s[i] \notin ClsSpace /\ (i = 1 \/ s[i - 1] \in ClsSpace)}
        ends   == {i \in DOMAIN s :
                     s[i] \notin ClsSpace /\ (i = Len(s) \/ s[i + 1] \in ClsSpace)}
        nth(S, k) == CHOOSE i \in S : Cardinality({j \in S : j < i}) = k - 1
    IN  [k \in 1..Cardinality(starts) |-> SubSeq(s, nth(starts, k), nth(ends, k))]

\* dir_path.split('/')[-1]: the text after the last '/'
LastSegment(s) ==
    LET slashes == {i \in DOMAIN s : s[i] = "/"}
    IN  IF slashes = {} THEN s
        ELSE SubSeq(s, (CHOOSE i \in slashes : \A j \in slashes : i >= j) + 1, Len(s))

(***************************************************************************)
(* Regular expressions (the subset of Python's re the handlers use)        *)
(***************************************************************************)
\* syntax trees
ReSet(cs)        == [t |-> "set", s |-> cs]                \* one character of cs
ReNot(cs)        == [t |-> "set", s |-> Alphabet \ cs]     \* [^...]
ReLit(w)         == [t |-> "lit", w |-> w]                 \* the characters of w
ReCat(a)         == [t |-> "cat", a |-> a]                 \* a[1] a[2] ...
ReAlt(a)         == [t |-> "alt", a |-> a]                 \* a[1] | a[2] | ...
ReRep(r, lo, hi) == [t |-> "rep", r |-> r, lo |-> lo, hi |-> hi]  \* r{lo,hi}, greedy; hi = -1: unbounded
ReStar(r)        == ReRep(r, 0, -1)
RePlus(r)        == ReRep(r, 1, -1)
ReOpt(r)         == ReRep(r, 0, 1)
ReCap(r)         == [t |-> "cap", r |-> r]                 \* the group the caller reads
ReBol            == [t |-> "bol"]                          \* ^
ReEol            == [t |-> "eol"]                          \* $
ReBehind(cs)     == [t |-> "behind", s |-> cs]             \* (?<=[cs])
ReAhead(cs)      == [t |-> "ahead", s |-> cs]              \* (?=[cs])

NoCap == <<0, 0>>

\* A match attempt of re at position i of s (the index of the first character
\* the match may consume).  The result is the sequence of <<end, cap>> in
\* the order a backtracking matcher tries them: end is the index after the last
\* consumed character, cap the <<start, end>> of the captured group or NoCap.
\* ci is re.IGNORECASE.
RECURSIVE ReM(_, _, _, _)
RECURSIVE ReMCat(_, _, _, _, _)
RECURSIVE ReMAlt(_, _, _, _, _)
RECURSIVE ReMRep(_, _, _, _, _)
RECURSIVE ReThen(_, _, _, _, _, _)
RECURSIVE ReAgain(_, _, _, _, _, _)

ReM(re, s, i, ci) ==
    CASE re.t = "set" ->
            IF i <= Len(s) /\ (s[i] \in re.s \/ (ci /\ LowerChar(s[i]) \in re.s))
            THEN << <<i + 1, NoCap>> >> ELSE <<>>
      [] re.t = "lit" ->
            IF i + Len(re.w) - 1 <= Len(s)
               /\ \A j \in DOMAIN re.w :
                     \/ s[i + j - 1] = re.w[j]
                     \/ ci /\ LowerChar(s[i + j - 1]) = LowerChar(re.w[j])
            THEN << <<i + Len(re.w), NoCap>> >> ELSE <<>>
      [] re.t = "cat" -> ReMCat(re.a, 1, s, i, ci)
      [] re.t = "alt" -> ReMAlt(re.a, 1, s, i, ci)
      [] re.t = "rep" -> ReMRep(re, 0, s, i, ci)
      [] re.t = "cap" ->
            LET inner == ReM(re.r, s, i, ci)
            IN  [k \in DOMAIN inner |-> <<inner[k][1], <<i, inner[k][1]>> >>]
      [] re.t = "bol" -> IF i = 1 THEN << <<i, NoCap>> >> ELSE <<>>
      [] re.t = "eol" -> IF i = Len(s) + 1 THEN << <<i, NoCap>> >> ELSE <<>>
      [] re.t = "behind" ->
            IF i > 1 /\ s[i - 1] \in re.s THEN << <<i, NoCap>> >> ELSE <<>>
      [] re.t = "ahead" ->
            IF i <= Len(s) /\ s[i] \in re.s THEN << <<i, NoCap>> >> ELSE <<>>

\* for each way first[k..] ends, the ways the rest a[n+1..] goes on from there
ReThen(first, k, a, n, s, ci) ==
    IF k > Len(first) THEN <<>>
    ELSE LET rest == ReMCat(a, n + 1, s, first[k][1], ci)
         IN  [j \in DOMAIN rest |->
                <<rest[j][1], IF rest[j][2] /= NoCap THEN rest[j][2] ELSE first[k][2]>>]
             \o ReThen(first, k + 1, a, n, s, ci)

ReMCat(a, n, s, i, ci) ==
    IF n > Len(a) THEN << <<i, NoCap>> >>
    ELSE ReThen(ReM(a[n], s, i, ci), 1, a, n, s, ci)

ReMAlt(a, n, s, i, ci) ==
    IF n > Len(a) THEN <<>>
    ELSE ReM(a[n], s, i, ci) \o ReMAlt(a, n + 1, s, i, ci)

\* for each way one more iteration ends (consuming something), the ways the
\* repetition goes on from there
ReAgain(once, k, re, count, s, ci) ==
    IF k > Len(once) THEN <<>>
    ELSE (IF once[k][1] > Len(s) + 1 THEN <<>>
          ELSE ReMRep(re, count + 1, s, once[k][1], ci))
         \o ReAgain(once, k + 1, re, count, s, ci)

\* greedy: one more iteration first, stopping here last
ReMRep(re, count, s, i, ci) ==
    LET once == IF re.hi /= -1 /\ count >= re.hi THEN <<>>
                ELSE SelectSeq(ReM(re.r, s, i, ci), LAMBDA x : x[1] > i)
    IN  ReAgain(once, 1, re, count, s, ci)
        \o (IF count >= re.lo THEN << <<i, NoCap>> >> ELSE <<>>)

NoMatch == [found |-> FALSE, start |-> 0, end |-> 0, cap |-> NoCap]

\* re.search(re, s[from..]): the leftmost match, in the matcher's priority
ReSearchFrom(re, s, from, ci) ==
    LET Found(p, m) == [found |-> TRUE, start |-> p, end |-> m[1], cap |-> m[2]]
        MatchAt(p) == Found(p, ReM(re, s, p, ci)[1])
        Leftmost(starts) ==
            IF starts = {} THEN NoMatch
            ELSE MatchAt(CHOOSE q \in starts : \A r \in starts : q <= r)
    IN  Leftmost({p \in from..(Len(s) + 1) : ReM(re, s, p, ci) /= <<>>})

ReSearch(re, s, ci) == ReSearchFrom(re, s, 1, ci)

\* re.sub(re, repl, s): every non-overlapping match, left to right, replaced
RECURSIVE ReSubFrom(_, _, _, _, _)
\* m is the leftmost match in s[from..]
ReSubAt(m, re, repl, s, from, ci) ==
    IF ~m.found THEN SubSeq(s, from, Len(s))
    ELSE IF m.end > m.start
         THEN SubSeq(s, from, m.start - 1) \o repl
              \o ReSubFrom(re, repl, s, m.end, ci)
         ELSE \* an empty match: replace, keep the character, go on after it
              SubSeq(s, from, m.start - 1) \o repl
              \o (IF m.start <= Len(s)
                  THEN <<s[m.start]>> \o ReSubFrom(re, repl, s, m.start + 1, ci)
                  ELSE <<>>)

ReSubFrom(re, repl, s, from, ci) ==
    ReSubAt(ReSearchFrom(re, s, from, ci), re, repl, s, from, ci)

ReSub(re, repl, s, ci) == ReSubFrom(re, repl, s, 1, ci)

\* name = re.sub(pattern, repl, name, flags=...) for every
\* <<pattern, repl, IGNORECASE>> of subs, in order.  Every pattern of the
\* handlers consumes at least one character, so an empty name stays empty.
RECURSIVE ReSubEach(_, _, _)
ReSubEach(subs, i, name) ==
    IF i > Len(subs) \/ name = <<>> THEN name
    ELSE ReSubEach(subs, i + 1, ReSub(subs[i][1], subs[i][2], name, subs[i][3]))

(***************************************************************************)
(* detect_series: the filename normaliser                                  *)
(***************************************************************************)
D2 == ReRep(ReSet(ClsDigit), 2, 2)
D4 == ReRep(ReSet(ClsDigit), 4, 4)
Ws0 == ReStar(ReSet(ClsSpace))
Ws1 == RePlus(ReSet(ClsSpace))
Dot == ReLit(<<".">>)
Dash == ReLit(<<"-">>)
Sep == {" ", "-", "_"}

\* r'\.(mp3|flac|wav|m4a|aac|ogg)$'
ReExtension ==
    ReCat(<<Dot,
            ReAlt(<<ReLit(<<"m","p","3">>), ReLit(<<"f","l","a","c">>),
                    ReLit(<<"w","a","v">>), ReLit(<<"m","4","a">>),
                    ReLit(<<"a","a","c">>), ReLit(<<"o","g","g">>)>>),
            ReEol>>)

\* r'(?<=[a-zA-Z])-(?=[a-zA-Z])'
ReWordHyphen == ReCat(<<ReBehind(Letters), Dash, ReAhead(Letters)>>)

\* clean_filename that leaves the underscores in place
clean_filename_keep_underscores(filename) ==
    Strip(ReSubEach(<< <<ReExtension, <<>>, TRUE>>,
                       <<ReWordHyphen, <<" ">>, FALSE>>,
                       <<Ws1, <<" ">>, FALSE>> >>, 1, filename))

clean_filename(filename) ==
    Strip(ReSubEach(<< <<ReExtension, <<>>, TRUE>>,
                       <<ReLit(<<"_">>), <<" ">>, FALSE>>,
                       <<ReWordHyphen, <<" ">>, FALSE>>,
                       <<Ws1, <<" ">>, FALSE>> >>, 1, filename))

\* r'\s*\([^)]*(?:jan|feb|mar|apr|may|jun|jul|aug|sep|oct|nov|dec)[^)]*\d{4}[^)]*\)'
ReParenMonthYear ==
    ReCat(<<Ws0, ReLit(<<"(">>), ReStar(ReNot({")"})),
            ReAlt(<<ReLit(<<"j","a","n">>), ReLit(<<"f","e","b">>),
                    ReLit(<<"m","a","r">>), ReLit(<<"a","p","r">>),
                    ReLit(<<"m","a","y">>), ReLit(<<"j","u","n">>),
                    ReLit(<<"j","u","l">>), ReLit(<<"a","u","g">>),
                    ReLit(<<"s","e","p">>), ReLit(<<"o","c","t">>),
                    ReLit(<<"n","o","v">>), ReLit(<<"d","e","c">>)>>),
            ReStar(ReNot({")"})), D4, ReStar(ReNot({")"})), ReLit(<<")">>)>>)

\* r'\s*\(\d{4}\)'
ReParenYear == ReCat(<<Ws0, ReLit(<<"(">>), D4, ReLit(<<")">>)>>)

\* r'\s*\(\d{4}-\d{2}-\d{2}\s+\d{2}\.\d{2}\.\d{2}\s+\w+\)'
ReParenTimestamp ==
    ReCat(<<Ws0, ReLit(<<"(">>), D4, Dash, D2, Dash, D2, Ws1,
            D2, Dot, D2, Dot, D2, Ws1, RePlus(ReSet(ClsWord)), ReLit(<<")">>)>>)

\* r'\s*\(\d{2}\.\d{2}\.\d{2}\s+\w+\.?\s+\d{1,2}[:.]\d{2}\)'
ReParenRadio ==
    ReCat(<<Ws0, ReLit(<<"(">>), D2, Dot, D2, Dot, D2, Ws1,
            RePlus(ReSet(ClsWord)), ReOpt(Dot), Ws1,
            ReRep(ReSet(ClsDigit), 1, 2), ReSet({":", "."}), D2, ReLit(<<")">>)>>)

\* r'\s*[\(\[]?\d{4}[\-\.]\d{2}[\-\.]\d{2}[\)\]]?'
ReIsoDate ==
    ReCat(<<Ws0, ReOpt(ReSet({"(", "["})), D4, ReSet({"-", "."}), D2,
            ReSet({"-", "."}), D2, ReOpt(ReSet({")", "]"}))>>)

\* r'\s*-\s*\d{4}-\d{2}-\d{2}\s*$'
ReTrailingDate == ReCat(<<Ws0, Dash, Ws0, D4, Dash, D2, Dash, D2, Ws0, ReEol>>)

\* r'\s+\d{2}\.\d{2}\.\d{2}\s+\w+\)?'
ReTimeDay ==
    ReCat(<<Ws1, D2, Dot, D2, Dot, D2, Ws1, RePlus(ReSet(ClsWord)),
            ReOpt(ReLit(<<")">>))>>)

\* r'\s*(january|...|december)\s+\d{4}\s*(mix)?\s*'
ReMonthYearMix ==
    ReCat(<<Ws0,
            ReAlt(<<ReLit(<<"j","a","n","u","a","r","y">>),
                    ReLit(<<"f","e","b","r","u","a","r","y">>),
                    ReLit(<<"m","a","r","c","h">>), ReLit(<<"a","p","r","i","l">>),
                    ReLit(<<"m","a","y">>), ReLit(<<"j","u","n","e">>),
                    ReLit(<<"j","u","l","y">>), ReLit(<<"a","u","g","u","s","t">>),
                    ReLit(<<"s","e","p","t","e","m","b","e","r">>),
                    ReLit(<<"o","c","t","o","b","e","r">>),
                    ReLit(<<"n","o","v","e","m","b","e","r">>),
                    ReLit(<<"d","e","c","e","m","b","e","r">>)>>),
            Ws1, D4, Ws0, ReOpt(ReLit(<<"m","i","x">>)), Ws0>>)

\* r'\s*part\s*\d+\s*$'
RePartN ==
    ReCat(<<Ws0, ReLit(<<"p","a","r","t">>), Ws0, RePlus(ReSet(ClsDigit)), Ws0, ReEol>>)

\* r'\s+(\d{2,4})\s*$'
ReTrailingEpisode ==
    ReCat(<<Ws1, ReCap(ReRep(ReSet(ClsDigit), 2, 4)), Ws0, ReEol>>)

\* r'[\s\-_]*(episode|ep\.?|#)\s*(\d{1,4})'; the group read is the second
ReEpisodeWord ==
    ReCat(<<ReStar(ReSet(Sep)),
            ReAlt(<<ReLit(<<"e","p","i","s","o","d","e">>),
                    ReCat(<<ReLit(<<"e","p">>), ReOpt(Dot)>>),
                    ReLit(<<"#">>)>>),
            Ws0, ReCap(ReRep(ReSet(ClsDigit), 1, 4))>>)

\* r'^\d{1,2}[\s\-_]+'
ReLeadingTrackNo == ReCat(<<ReBol, ReRep(ReSet(ClsDigit), 1, 2), RePlus(ReSet(Sep))>>)

\* r'[\s\-_]+$'
ReTrailingSep == ReCat(<<RePlus(ReSet(Sep)), ReEol>>)

\* re.sub(r'[^\w\s]', '', s.lower()): the normalisation of keys, directory
\* names and album names
StripSpecial(s) == FilterChars(StrLower(s), ClsWord \cup ClsSpace)

\* the date patterns extract_series_name removes first, in order
DatePatterns ==
    << <<ReParenMonthYear, <<>>, TRUE>>,
       <<ReParenYear, <<>>, FALSE>>,
       <<ReParenTimestamp, <<>>, FALSE>>,
       <<ReParenRadio, <<>>, FALSE>>,
       <<ReIsoDate, <<>>, FALSE>>,
       <<ReTrailingDate, <<>>, FALSE>>,
       <<ReTimeDay, <<>>, FALSE>>,
       <<ReMonthYearMix, <<" ">>, TRUE>>,
       <<RePartN, <<>>, TRUE>> >>

\* episode = ep_match.group(n); name = name[:ep_match.start()].strip()
EpisodeFrom(name, ep_match) ==
    [ name |-> Strip(SubSeq(name, 1, ep_match.start - 1)),
      episode |-> SubSeq(name, ep_match.cap[1], ep_match.cap[2] - 1) ]

\* "Episode XXX" or "EP XXX" or "#XXX", looked for when no episode was found
EpisodeWord(name, ep_match) ==
    IF ep_match.found THEN EpisodeFrom(name, ep_match)
    ELSE [name |-> name, episode |-> None]

\* "Name 123" where 123 is the episode
TrailingEpisode(name, ep_match) ==
    IF ep_match.found THEN EpisodeFrom(name, ep_match)
    ELSE EpisodeWord(name, ReSearch(ReEpisodeWord, name, TRUE))

\* returns (name, normalized, episode)
SeriesName(name, episode) ==
    [ display_name |-> name,
      normalized |-> Strip(ReSub(Ws1, <<" ">>, StripSpecial(name), FALSE)),
      episode |-> episode ]

\* the leading track number and the trailing separators removed
Trimmed(ne) ==
    SeriesName(ReSubEach(<< <<ReLeadingTrackNo, <<>>, FALSE>>,
                            <<ReTrailingSep, <<>>, FALSE>> >>, 1, ne.name),
               ne.episode)

\* extract_series_name after the date patterns
Undated(name) ==
    Trimmed(TrailingEpisode(name, ReSearch(ReTrailingEpisode, name, FALSE)))

extract_series_name(filename) ==
    Undated(ReSubEach(DatePatterns, 1, clean_filename(filename)))

(***************************************************************************)
(* detect_series: token similarity and common prefix                       *)
(***************************************************************************)
stop_words ==
    { <<"t","h","e">>, <<"a">>, <<"a","n">>, <<"a","n","d">>, <<"o","r">>,
      <<"o","f">>, <<"i","n">>, <<"o","n">>, <<"a","t">>, <<"t","o">>,
      <<"f","o","r">>, <<"m","i","x">>, <<"d","j">>, <<"l","i","v","e">> }

get_name_tokens(name) ==
    {w \in SeqRange(Split(StripSpecial(name))) : Len(w) > 2 /\ w \notin stop_words}

\* A score is the exact value of the float the code computes, as a fraction in
\* lowest terms.
RECURSIVE Gcd(_, _)
Gcd(a, b) == IF b = 0 THEN a ELSE Gcd(b, a % b)

Frac(n, d) == LET g == Gcd(n, d) IN [n |-> n \div g, d |-> d \div g]
FracGT(a, b) == a.n * b.d > b.n * a.d
FracZero == Frac(0, 1)
FracHalf == Frac(1, 2)
FracOne  == Frac(1, 1)

\* max(a, b) of Python: the first of the largest
PyMax(a, b) == IF FracGT(b, a) THEN b ELSE a

\* similarity_score without the containment boost: the Jaccard index alone
similarity_score_jaccard(name1, name2) ==
    LET tokens1 == get_name_tokens(name1)
        tokens2 == get_name_tokens(name2)
    IN  IF tokens1 = {} \/ tokens2 = {} THEN FracZero
        ELSE Frac(Cardinality(tokens1 \cap tokens2), Cardinality(tokens1 \cup tokens2))

similarity_score(name1, name2) ==
    LET tokens1 == get_name_tokens(name1)
        tokens2 == get_name_tokens(name2)
        intersection == Cardinality(tokens1 \cap tokens2)
        union == Cardinality(tokens1 \cup tokens2)
        jaccard == IF union > 0 THEN Frac(intersection, union) ELSE FracZero
        swap == ~(Cardinality(tokens1) <= Cardinality(tokens2))
        smaller == IF swap THEN tokens2 ELSE tokens1
        larger == IF swap THEN tokens1 ELSE tokens2
        \* 0.5 + containment_score * 0.5, containment_score = |smaller| / |larger|
        boosted == Frac(Cardinality(larger) + Cardinality(smaller),
                        2 * Cardinality(larger))
    IN  IF tokens1 = {} \/ tokens2 = {} THEN FracZero
        ELSE IF smaller /= {} /\ smaller \subseteq larger
             THEN PyMax(jaccard, boosted)
             ELSE jaccard

\* score > 0.5, the merge and match threshold
IsSimilar(name1, name2) == FracGT(similarity_score(name1, name2), FracHalf)

find_common_prefix(names) ==
    IF names = <<>> THEN <<>>
    ELSE IF Len(names) = 1 THEN names[1]
    ELSE LET \* sorted(names, key=len)[0]: the first of the shortest names
             k == CHOOSE i \in DOMAIN names :
                     /\ \A j \in DOMAIN names : Len(names[i]) <= Len(names[j])
                     /\ \A j \in 1..(i - 1) : Len(names[j]) > Len(names[i])
             shortest == names[k]
             trimmed(i) == ReSub(ReTrailingSep, <<>>, SubSeq(shortest, 1, i), FALSE)
             good == {i \in 1..Len(shortest) :
                        /\ \A j \in DOMAIN names :
                              StartsWith(names[j], SubSeq(shortest, 1, i))
                        /\ Len(trimmed(i)) > 3}
         IN  IF good = {} THEN names[1]
             ELSE trimmed(CHOOSE i \in good : \A j \in good : i >= j)

(***************************************************************************)
(* Python containers                                                       *)
(***************************************************************************)
\* A dict is the sequence of its items [key, val] in insertion order.
DictKeys(d) == [i \in DOMAIN d |-> d[i].key]
DictHas(d, k) == \E i \in DOMAIN d : d[i].key = k
DictGet(d, k) == d[CHOOSE i \in DOMAIN d : d[i].key = k].val

\* d[k] = v: a new key goes last, a present key keeps its place
DictSet(d, k, v) ==
    IF DictHas(d, k)
    THEN [i \in DOMAIN d |-> IF d[i].key = k THEN [key |-> k, val |-> v] ELSE d[i]]
    ELSE Append(d, [key |-> k, val |-> v])

\* d[k].append(x) on a defaultdict(list)
DictAppendTo(d, k, x) ==
    DictSet(d, k, IF DictHas(d, k) THEN Append(DictGet(d, k), x) ELSE <<x>>)

\* del d[k] for every k of ks
DictDelAll(d, ks) == SelectSeq(d, LAMBDA it : it.key \notin ks)

\* sorted(s, key=...): stable, Lt(a, b) is key(a) < key(b)
SortedBy(s, Lt(_, _)) ==
    LET before(i) == {j \in DOMAIN s :
                        Lt(s[j], s[i]) \/ (~Lt(s[i], s[j]) /\ j < i)}
    IN  [p \in DOMAIN s |-> s[CHOOSE i \in DOMAIN s : Cardinality(before(i)) = p - 1]]

\* max(d.keys(), key=lambda x: d[x]) on a dict of counts: the first key
\* (in insertion order) with the largest count.  values, in order of first
\* occurrence, are the keys; the counts are the numbers of occurrences.
Count(values, v) == Cardinality({i \in DOMAIN values : values[i] = v})
MostCommon(values) ==
    values[CHOOSE i \in DOMAIN values :
              /\ \A j \in DOMAIN values : Count(values, values[j]) <= Count(values, values[i])
              /\ \A j \in 1..(i - 1) : Count(values, values[j]) < Count(values, values[i])]

\* the order of str: by code point, a proper prefix first
AsciiOrder == <<" ","#","&","'","(",")",",","-",".","/">> \o DigitChars \o <<":">>
              \o UpperChars \o <<"[","]","_">> \o LowerChars
Ord(c) == CHOOSE i \in DOMAIN AsciiOrder : AsciiOrder[i] = c
StrLess(a, b) ==
    \E i \in 1..(Len(a) + 1) :
        /\ \A j \in 1..(i - 1) : j <= Len(b) /\ a[j] = b[j]
        /\ \/ i = Len(a) + 1 /\ Len(b) >= i
           \/ i <= Len(a) /\ i <= Len(b) /\ Ord(a[i]) < Ord(b[i])

\* int(s) of a string of digits
RECURSIVE StrToInt(_)
StrToInt(s) ==
    IF s = <<>> THEN 0
    ELSE 10 * StrToInt(SubSeq(s, 1, Len(s) - 1))
         + (CHOOSE i \in DOMAIN DigitChars : DigitChars[i] = s[Len(s)]) - 1

\* str(n) of a non-negative integer
RECURSIVE IntToStr(_)
IntToStr(n) ==
    IF n < 10 THEN <<DigitChars[n + 1]>>
    ELSE IntToStr(n \div 10) \o <<DigitChars[(n % 10) + 1]>>

\* str.isdigit() on the alphabet
IsDigitStr(s) == s /= <<>> /\ \A i \in DOMAIN s : s[i] \in Digits

(***************************************************************************)
(* The tracks table                                                        *)
(***************************************************************************)
\* a row of class Track, with the columns the handlers read or write
Track(id, filename, directory, duration, album, matched_album, artist, series_tagged) ==
    [ id |-> id,
      filename |-> filename,
      directory |-> directory,
      duration |-> duration,
      album |-> album,
      matched_album |-> matched_album,
      artist |-> artist,
      matched_artist |-> None,
      genre |-> None,
      matched_genre |-> None,
      album_artist |-> None,
      matched_album_artist |-> None,
      matched_cover_url |-> None,
      status |-> "pending",
      series_tagged |-> series_tagged ]

F_Patterns01 == <<"P","a","t","t","e","r","n","s"," ","0","1",".","m","p","3">>
F_patterns02 == <<"p","a","t","t","e","r","n","s","_","0","2",".","m","p","3">>
F_GaiBaronePatterns03 == <<"G","a","i"," ","B","a","r","o","n","e"," ","-"," ","P","a","t","t","e","r","n","s"," ","0","3",".","m","p","3">>
F_GaiBarone04 == <<"G","a","i"," ","B","a","r","o","n","e"," ","0","4",".","m","p","3">>
F_ab05 == <<"a","b"," ","0","5",".","m","p","3">>
F_Technotopia12 == <<"T","e","c","h","n","o","t","o","p","i","a"," ","1","2",".","m","p","3">>
F_Technotopia11 == <<"T","e","c","h","n","o","t","o","p","i","a"," ","1","1",".","m","p","3">>
D_MyPatterns == <<"/","m","/","M","y"," ","P","a","t","t","e","r","n","s">>
D_Sets == <<"/","m","/","S","e","t","s">>
D_x == <<"/","m","/","x">>
D_01MyPatterns == <<"/","m","/","0","1"," ","-"," ","M","y"," ","P","a","t","t","e","r","n","s">>
A_BestOf == <<"B","e","s","t"," ","O","f">>
A_Technotopia == <<"T","e","c","h","n","o","t","o","p","i","a">>
N_GaiBarone == <<"G","a","i"," ","B","a","r","o","n","e">>
N_DJTek == <<"D","J"," ","T","e","k">>
U_Cover == <<"h","t","t","p",":","/","/","c","/","1",".","j","p","g">>

\* The rows the table is filled from (the id is given by the place in the table).
TrackPool ==
    { Track(0, F_Patterns01, D_MyPatterns, 3600, None, None, N_GaiBarone, FALSE),
      Track(0, F_patterns02, D_Sets, 3600, A_BestOf, None, None, FALSE),
      Track(0, F_GaiBaronePatterns03, D_Sets, 3600, None, None, N_GaiBarone, FALSE),
      Track(0, F_GaiBarone04, D_Sets, 30, A_BestOf, None, N_GaiBarone, FALSE),
      Track(0, F_ab05, D_MyPatterns, 3600, A_BestOf, None, None, FALSE),
      Track(0, F_Technotopia12, D_x, 3600, None, None, None, FALSE),
      Track(0, F_Technotopia11, D_x, 3600, A_Technotopia, A_Technotopia, N_DJTek, TRUE),
      Track(0, F_ab05, D_Sets, 3600, None, <<"P","a","t","t","e","r","n","s","!">>, <<>>, TRUE),
      [Track(0, F_Technotopia12, D_x, 3600, A_Technotopia, A_Technotopia, N_DJTek, TRUE)
          EXCEPT !.matched_cover_url = U_Cover],
      [Track(0, F_Technotopia12, D_x, 3600, A_BestOf, A_Technotopia, N_GaiBarone, FALSE)
          EXCEPT !.matched_artist = N_DJTek],
      Track(0, F_ab05, D_01MyPatterns, 3600, None, None, None, FALSE) }

\* File names of one series: the words of a base name joined by a separator,
\* a separator, a run of digits and an audio extension.
B_LateNightSessions == << <<"L","a","t","e">>, <<"N","i","g","h","t">>, <<"S","e","s","s","i","o","n","s">> >>
B_ab == << <<"a","b">> >>
B_StoryPart == << <<"S","t","o","r","y">>, <<"P","a","r","t">> >>
Bases == {B_LateNightSessions, B_ab, B_StoryPart}
Separators == { <<" ">>, <<"_">> }
Extensions == { <<".","m","p","3">>, <<".","F","L","A","C">> }
Episodes == { <<"0","4","5">>, <<"4","6">> }

RECURSIVE Joined(_, _)
Joined(words, sep) ==
    IF words = <<>> THEN <<>>
    ELSE IF Len(words) = 1 THEN words[1]
    ELSE words[1] \o sep \o Joined(Tail(words), sep)

SeriesFile(base, sep, episode, ext) == Joined(base, sep) \o sep \o episode \o ext

SeriesFiles(base) ==
    {SeriesFile(base, sep, episode, ext) :
        sep \in Separators, episode \in Episodes, ext \in Extensions}

\* the most files of one series the table holds
MaxSeriesFiles == 3

\* the tables that hold files of one series and nothing else, all in one
\* directory, none of them tagged
SeriesTables ==
    UNION { UNION { { [i \in 1..n |->
                         Track(i, f[i], D_Sets, 3600, None, None, None, FALSE)] :
                      f \in [1..n -> SeriesFiles(base)] } :
                    n \in 1..MaxSeriesFiles } :
            base \in Bases }

Filenames ==
    {r.filename : r \in TrackPool} \cup UNION {SeriesFiles(base) : base \in Bases}

\* the most rows the table holds
MaxTracks == 3
\* the largest min_tracks a caller passes
MaxMinTracks == 3

\* the tables: every sequence of at most MaxTracks pool rows, ids 1, 2, ...
Tables ==
    UNION { { [i \in 1..n |-> [f[i] EXCEPT !.id = i]] : f \in [1..n -> TrackPool] } :
            n \in 0..MaxTracks }

\* extract_series_name and clean_filename on the file names of the table,
\* computed once
ExtractTable == [f \in Filenames |-> extract_series_name(f)]
CleanTable   == [f \in Filenames |-> clean_filename(f)]
Extract(f) == ExtractTable[f]
Clean(f)   == CleanTable[f]

(***************************************************************************)
(* detect_series: candidate groups (METHOD 1 to METHOD 5)                  *)
(***************************************************************************)
KeyDir    == <<"d","i","r",":">>
KeyOrphan == <<"o","r","p","h","a","n",":">>
KeyAlbum  == <<"a","l","b","u","m",":">>

\* The dict a strategy stores for a track.  A key the code does not set is held
\* as None (what dict.get answers), <<>> or FALSE.
Entry(track, display_name, episode) ==
    [ track_id |-> track.id,
      filename |-> track.filename,
      display_name |-> display_name,
      current_album |-> track.album,
      matched_album |-> track.matched_album,
      current_artist |-> track.artist,
      current_genre |-> track.genre,
      matched_genre |-> track.matched_genre,
      current_album_artist |-> track.album_artist,
      matched_album_artist |-> track.matched_album_artist,
      episode |-> episode,
      directory |-> track.directory,
      suggested_album |-> None,
      suggested_artist |-> None,
      suggested_genre |-> None,
      suggested_album_artist |-> None,
      matched_series |-> None,
      alternative_matches |-> <<>>,
      is_album_group |-> FALSE ]

\* the ids of the tracks of the groups that pass keep(key, track_list)
ClaimedIds(groups, keep(_, _)) ==
    UNION { {groups[i].val[j].track_id : j \in DOMAIN groups[i].val} :
            i \in {k \in DOMAIN groups : keep(groups[k].key, groups[k].val)} }

\* the loop body of METHOD 1 without the minimum length of the key
Method1TrackAnyLength(track, esn, series_groups) ==
    IF esn.normalized /= <<>>
    THEN DictAppendTo(series_groups, esn.normalized,
                      Entry(track, esn.display_name, esn.episode))
    ELSE series_groups

\* METHOD 1, the loop body: esn is extract_series_name(track.filename)
Method1Track(track, esn, series_groups) ==
    IF esn.normalized /= <<>> /\ Len(esn.normalized) > 3
    THEN DictAppendTo(series_groups, esn.normalized,
                      Entry(track, esn.display_name, esn.episode))
    ELSE series_groups

\* METHOD 1: group by normalized filename pattern
RECURSIVE Method1(_, _, _)
Method1(rows, i, series_groups) ==
    IF i > Len(rows) THEN series_groups
    ELSE Method1(rows, i + 1,
                 Method1Track(rows[i], Extract(rows[i].filename), series_groups))

\* METHOD 2, first loop: group by directory
RECURSIVE DirGroups(_, _, _)
DirGroups(rows, i, dir_groups) ==
    IF i > Len(rows) THEN dir_groups
    ELSE DirGroups(rows, i + 1,
            DictAppendTo(dir_groups, rows[i].directory,
                         Entry(rows[i], Clean(rows[i].filename), None)))

\* r'^\d+\s*[-_]\s*'
ReLeadingNumber ==
    ReCat(<<ReBol, RePlus(ReSet(ClsDigit)), Ws0, ReSet({"-", "_"}), Ws0>>)

\* the directory name the candidate is named after
DirName(dir_path) == ReSub(ReLeadingNumber, <<>>, LastSegment(dir_path), FALSE)

\* METHOD 2, second loop, were a candidate of the same name left as it is
RECURSIVE Method2KeepFirst(_, _, _, _, _)
Method2KeepFirst(dir_groups, i, existing_track_ids, min_tracks, series_groups) ==
    IF i > Len(dir_groups) THEN series_groups
    ELSE LET dir_path == dir_groups[i].key
             dir_tracks == dir_groups[i].val
             new_tracks == SelectSeq(dir_tracks,
                              LAMBDA t : t.track_id \notin existing_track_ids)
             dir_name == DirName(dir_path)
             normalized_dir == Strip(StripSpecial(dir_name))
             named == [k \in DOMAIN new_tracks |->
                         [new_tracks[k] EXCEPT !.display_name = dir_name]]
         IN  Method2KeepFirst(dir_groups, i + 1, existing_track_ids, min_tracks,
                IF /\ Len(dir_tracks) >= min_tracks
                   /\ Len(new_tracks) >= min_tracks
                   /\ normalized_dir /= <<>> /\ Len(normalized_dir) > 3
                   /\ ~DictHas(series_groups, KeyDir \o normalized_dir)
                THEN DictSet(series_groups, KeyDir \o normalized_dir, named)
                ELSE series_groups)

\* METHOD 2, second loop: the directory groups that become candidates
RECURSIVE Method2(_, _, _, _, _)
Method2(dir_groups, i, existing_track_ids, min_tracks, series_groups) ==
    IF i > Len(dir_groups) THEN series_groups
    ELSE LET dir_path == dir_groups[i].key
             dir_tracks == dir_groups[i].val
             new_tracks == SelectSeq(dir_tracks,
                              LAMBDA t : t.track_id \notin existing_track_ids)
             dir_name == DirName(dir_path)
             normalized_dir == Strip(StripSpecial(dir_name))
             named == [k \in DOMAIN new_tracks |->
                         [new_tracks[k] EXCEPT !.display_name = dir_name]]
         IN  Method2(dir_groups, i + 1, existing_track_ids, min_tracks,
                IF /\ Len(dir_tracks) >= min_tracks
                   /\ Len(new_tracks) >= min_tracks
                   /\ normalized_dir /= <<>> /\ Len(normalized_dir) > 3
                THEN DictSet(series_groups, KeyDir \o normalized_dir, named)
                ELSE series_groups)

\* METHOD 3 inner loop that also merges key2 when it is similar to a key
\* already merged into key1 (a transitive closure)
RECURSIVE Method3InnerTransitive(_, _, _, _, _)
Method3InnerTransitive(series_groups, series_keys, i, j, merged) ==
    IF j > Len(series_keys) THEN [groups |-> series_groups, merged |-> merged]
    ELSE LET key1 == series_keys[i]
             key2 == series_keys[j]
             list1 == DictGet(series_groups, key1)
             inKey1(k) == LET l == DictGet(series_groups, k)
                          IN  \A a \in DOMAIN l : \E b \in DOMAIN list1 : list1[b] = l[a]
         IN  IF /\ key2 \notin merged
                /\ \/ IsSimilar(key1, key2)
                   \/ \E k \in merged : inKey1(k) /\ IsSimilar(k, key2)
             THEN Method3InnerTransitive(
                     DictSet(series_groups, key1, list1 \o DictGet(series_groups, key2)),
                     series_keys, i, j + 1, merged \cup {key2})
             ELSE Method3InnerTransitive(series_groups, series_keys, i, j + 1, merged)

\* METHOD 3 inner loop that removes key2 without appending its tracks to key1
RECURSIVE Method3InnerNoExtend(_, _, _, _, _)
Method3InnerNoExtend(series_groups, series_keys, i, j, merged) ==
    IF j > Len(series_keys) THEN [groups |-> series_groups, merged |-> merged]
    ELSE IF series_keys[j] \notin merged /\ IsSimilar(series_keys[i], series_keys[j])
         THEN Method3InnerNoExtend(series_groups, series_keys, i, j + 1,
                                   merged \cup {series_keys[j]})
         ELSE Method3InnerNoExtend(series_groups, series_keys, i, j + 1, merged)

\* METHOD 3: merge similar series.  The state of the two loops is the groups
\* and the set merged; key1 = series_keys[i], key2 = series_keys[j].
RECURSIVE Method3Inner(_, _, _, _, _)
Method3Inner(series_groups, series_keys, i, j, merged) ==
    IF j > Len(series_keys) THEN [groups |-> series_groups, merged |-> merged]
    ELSE LET key1 == series_keys[i]
             key2 == series_keys[j]
         IN  IF key2 \notin merged /\ IsSimilar(key1, key2)
             THEN Method3Inner(
                     DictSet(series_groups, key1,
                             DictGet(series_groups, key1) \o DictGet(series_groups, key2)),
                     series_keys, i, j + 1, merged \cup {key2})
             ELSE Method3Inner(series_groups, series_keys, i, j + 1, merged)

RECURSIVE Method3Outer(_, _, _, _)
Method3Outer(series_groups, series_keys, i, merged) ==
    IF i > Len(series_keys) THEN DictDelAll(series_groups, merged)
    ELSE IF series_keys[i] \in merged
         THEN Method3Outer(series_groups, series_keys, i + 1, merged)
         ELSE LET r == Method3Inner(series_groups, series_keys, i, i + 1, merged)
              IN  Method3Outer(r.groups, series_keys, i + 1, r.merged)

Method3(series_groups) == Method3Outer(series_groups, DictKeys(series_groups), 1, {})

\* METHOD 4: the map of the tagged series, normalized album name -> metadata
RECURSIVE TaggedSeriesMap(_, _, _)
TaggedSeriesMap(tagged_tracks, i, map) ==
    IF i > Len(tagged_tracks) THEN map
    ELSE LET track == tagged_tracks[i]
             album == OrElse(track.matched_album, track.album)
             album_normalized == Strip(StripSpecial(album))
         IN  TaggedSeriesMap(tagged_tracks, i + 1,
                IF Truthy(album) /\ ~DictHas(map, album_normalized)
                THEN DictSet(map, album_normalized,
                        [ album |-> album,
                          artist |-> OrElse(track.matched_artist, track.artist),
                          genre |-> OrElse(OrElse(track.matched_genre, track.genre), <<>>),
                          album_artist |-> OrElse(OrElse(track.matched_album_artist,
                                                         track.album_artist), <<>>),
                          cover_url |-> track.matched_cover_url ])
                ELSE map)

\* the matches of one track: every tagged series scoring above 0.5, best first
OrphanMatches(normalized, tagged_series_map) ==
    LET scored == [k \in DOMAIN tagged_series_map |->
                     [ album |-> tagged_series_map[k].val.album,
                       artist |-> tagged_series_map[k].val.artist,
                       genre |-> tagged_series_map[k].val.genre,
                       album_artist |-> tagged_series_map[k].val.album_artist,
                       cover_url |-> tagged_series_map[k].val.cover_url,
                       score |-> similarity_score(normalized, tagged_series_map[k].key) ]]
        matches == SelectSeq(scored, LAMBDA m : FracGT(m.score, FracHalf))
    IN  \* matches.sort(key=lambda x: -x['score'])
        SortedBy(matches, LAMBDA a, b : FracGT(a.score, b.score))

\* METHOD 4, the loop body: esn is extract_series_name(track.filename) and
\* matches the tagged series it matches
Method4Track(track, esn, matches, st) ==
    LET best_match == matches[1]
        orphan == [Entry(track, esn.display_name, esn.episode) EXCEPT
                     !.suggested_album = best_match.album,
                     !.suggested_artist = best_match.artist,
                     !.suggested_genre = best_match.genre,
                     !.suggested_album_artist = best_match.album_artist,
                     !.matched_series = best_match.album,
                     !.alternative_matches = SubSeq(matches, 2, IF Len(matches) < 5 THEN Len(matches) ELSE 5)]
    IN  IF track.id \notin st.existing /\ matches /= <<>>
        THEN [ groups |-> DictSet(st.groups, KeyOrphan \o IntToStr(track.id), <<orphan>>),
               existing |-> st.existing \cup {track.id} ]
        ELSE st

\* METHOD 4: orphan tracks that match a tagged series
RECURSIVE Method4(_, _, _, _)
Method4(rows, i, tagged_series_map, st) ==
    IF i > Len(rows) THEN st
    ELSE Method4(rows, i + 1, tagged_series_map,
            Method4Track(rows[i], Extract(rows[i].filename),
                         OrphanMatches(Extract(rows[i].filename).normalized,
                                       tagged_series_map),
                         st))

\* METHOD 5, first loop: group the unclaimed tracks by existing album metadata
RECURSIVE AlbumGroups(_, _, _, _)
AlbumGroups(rows, i, existing_track_ids, album_groups) ==
    IF i > Len(rows) THEN album_groups
    ELSE LET track == rows[i]
             album == OrElse(track.album, track.matched_album)
             album_normalized == Strip(StripSpecial(album))
             entry == [Entry(track, Clean(track.filename), None) EXCEPT
                         !.suggested_album = album,
                         !.suggested_artist = track.artist,
                         !.suggested_genre = OrElse(track.genre, <<>>),
                         !.suggested_album_artist = OrElse(track.album_artist, <<>>),
                         !.is_album_group = TRUE]
         IN  AlbumGroups(rows, i + 1, existing_track_ids,
                IF /\ track.id \notin existing_track_ids
                   /\ Truthy(album) /\ Len(album) > 2
                   /\ album_normalized /= <<>>
                THEN DictAppendTo(album_groups, album_normalized, entry)
                ELSE album_groups)

\* METHOD 5, second loop: the album groups that meet the minimum
RECURSIVE Method5(_, _, _, _)
Method5(album_groups, i, min_tracks, series_groups) ==
    IF i > Len(album_groups) THEN series_groups
    ELSE Method5(album_groups, i + 1, min_tracks,
            IF Len(album_groups[i].val) >= min_tracks
            THEN DictSet(series_groups, KeyAlbum \o album_groups[i].key, album_groups[i].val)
            ELSE series_groups)

\* METHOD 2 with the tracks of every candidate of METHOD 1 taken as claimed
Method2AfterAnyGroup(rows, min_tracks, series_groups) ==
    Method2(DirGroups(rows, 1, <<>>), 1,
            ClaimedIds(series_groups, LAMBDA k, l : TRUE),
            min_tracks, series_groups)

\* METHOD 2 on the series_groups of METHOD 1
Method2After(rows, min_tracks, series_groups) ==
    Method2(DirGroups(rows, 1, <<>>), 1,
            ClaimedIds(series_groups, LAMBDA k, l : Len(l) >= min_tracks),
            min_tracks, series_groups)

\* series_groups after METHOD 1 and METHOD 2
CandidatesM2(rows, min_tracks) ==
    Method2After(rows, min_tracks, Method1(rows, 1, <<>>))

\* series_groups after METHOD 3
CandidatesM3(rows, min_tracks) == Method3(CandidatesM2(rows, min_tracks))

\* existing_track_ids rebuilt from the candidates of every size
ClaimedAfterM3AnySize(m3groups, min_tracks) ==
    ClaimedIds(m3groups, LAMBDA k, l : ~StartsWith(k, KeyDir))

\* existing_track_ids left empty after METHOD 3
ClaimedAfterM3None(m3groups, min_tracks) == {}

\* existing_track_ids as rebuilt after METHOD 3
ClaimedAfterM3(m3groups, min_tracks) ==
    ClaimedIds(m3groups, LAMBDA k, l : Len(l) >= min_tracks /\ ~StartsWith(k, KeyDir))

\* METHOD 4 on the series_groups of METHOD 3
Method4After(rows, tagged_tracks, min_tracks, include_tagged, series_groups) ==
    LET st == [ groups |-> series_groups,
                existing |-> ClaimedAfterM3(series_groups, min_tracks) ]
    IN  IF ~include_tagged
        THEN Method4(rows, 1, TaggedSeriesMap(tagged_tracks, 1, <<>>), st)
        ELSE st

\* series_groups and existing_track_ids after METHOD 4
CandidatesM4(rows, tagged_tracks, min_tracks, include_tagged) ==
    Method4After(rows, tagged_tracks, min_tracks, include_tagged,
                 CandidatesM3(rows, min_tracks))

\* METHOD 5 on the series_groups and existing_track_ids of METHOD 4
Method5After(rows, min_tracks, st) ==
    Method5(AlbumGroups(rows, 1, st.existing, <<>>), 1, min_tracks, st.groups)

\* series_groups after METHOD 5
Candidates(rows, tagged_tracks, min_tracks, include_tagged) ==
    Method5After(rows, min_tracks,
                 CandidatesM4(rows, tagged_tracks, min_tracks, include_tagged))

(***************************************************************************)
(* detect_series: the series list                                          *)
(***************************************************************************)
S_Various == <<"V","a","r","i","o","u","s">>

\* the sort key of a track within its series
EpisodeNo(t) ==
    IF Truthy(t.episode) /\ IsDigitStr(t.episode) THEN StrToInt(t.episode) ELSE 0
\* the order of the tracks by filename alone
TrackBeforeByFilename(a, b) == StrLess(a.filename, b.filename)

TrackBefore(a, b) ==
    \/ EpisodeNo(a) < EpisodeNo(b)
    \/ EpisodeNo(a) = EpisodeNo(b) /\ StrLess(a.filename, b.filename)

\* the non-empty values among vals, in order
NonEmpty(vals) == SelectSeq(vals, Truthy)

\* series_name and the suggested_* of one group
Suggestions(track_list) ==
    IF Truthy(track_list[1].matched_series)
    THEN \* orphan track: the pre-set suggestions
         [ series_name |-> track_list[1].suggested_album,
           suggested_artist |-> track_list[1].suggested_artist,
           suggested_genre |-> track_list[1].suggested_genre,
           suggested_album_artist |-> track_list[1].suggested_album_artist ]
    ELSE LET display_names == [i \in DOMAIN track_list |-> track_list[i].display_name]
             artists == NonEmpty([i \in DOMAIN track_list |-> track_list[i].current_artist])
             genres == NonEmpty([i \in DOMAIN track_list |->
                          OrElse(track_list[i].matched_genre, track_list[i].current_genre)])
             album_artists == NonEmpty([i \in DOMAIN track_list |->
                          OrElse(track_list[i].matched_album_artist,
                                 track_list[i].current_album_artist)])
         IN  [ series_name |->
                  IF \E i \in DOMAIN display_names :
                        Count(display_names, display_names[i]) > 1
                  THEN MostCommon(display_names)
                  ELSE find_common_prefix(display_names),
               suggested_artist |->
                  IF artists /= <<>> THEN MostCommon(artists) ELSE S_Various,
               suggested_genre |->
                  IF genres /= <<>> THEN MostCommon(genres) ELSE <<>>,
               suggested_album_artist |->
                  IF album_artists /= <<>> THEN MostCommon(album_artists) ELSE <<>> ]

\* Deduplicate keeping the last entry of each track_id
DeduplicateKeepLast(track_list) ==
    SelectSeq([i \in DOMAIN track_list |-> [at |-> i, t |-> track_list[i]]],
              LAMBDA x : \A j \in (x.at + 1)..Len(track_list) :
                            track_list[j].track_id /= x.t.track_id)

\* Deduplicate tracks by ID: the first entry of each track_id
Deduplicate(track_list) ==
    SelectSeq([i \in DOMAIN track_list |-> [at |-> i, t |-> track_list[i]]],
              LAMBDA x : \A j \in 1..(x.at - 1) : track_list[j].track_id /= x.t.track_id)

unique_tracks(track_list) ==
    LET d == Deduplicate(track_list) IN [i \in DOMAIN d |-> d[i].t]

\* effective_min without the minimum for the non-orphan groups
effective_min_always_one(key, min_tracks) == 1

\* effective_min without the exception for the orphan groups
effective_min_no_orphan(key, min_tracks) == min_tracks

\* the minimum a candidate has to meet
effective_min(key, min_tracks) == IF StartsWith(key, KeyOrphan) THEN 1 ELSE min_tracks

\* whether the group under key is put on the series list
Emitted(key, track_list, min_tracks) ==
    /\ Len(track_list) >= effective_min(key, min_tracks)
    /\ Len(unique_tracks(track_list)) >= effective_min(key, min_tracks)

\* the entry of one group whose tracks keep the suggestions they came with
SeriesEntryKeeping(key, track_list, sg) ==
    LET unique == unique_tracks(track_list)
        is_orphan == StartsWith(key, KeyOrphan)
    IN  [ series_name |-> sg.series_name,
          track_count |-> Len(unique),
          tracks |-> SortedBy(unique, TrackBefore),
          suggested_album |-> sg.series_name,
          suggested_artist |-> sg.suggested_artist,
          suggested_genre |-> sg.suggested_genre,
          suggested_album_artist |-> sg.suggested_album_artist,
          is_orphan |-> is_orphan,
          matched_series |-> IF is_orphan THEN track_list[1].matched_series ELSE None,
          alternative_matches |->
              IF is_orphan THEN track_list[1].alternative_matches ELSE <<>>,
          is_album_group |-> StartsWith(key, KeyAlbum) ]

\* the entry of the series list for the group under key, sg its suggestions
SeriesEntryWith(key, track_list, sg) ==
    LET suggested == [i \in DOMAIN track_list |->
                        IF ~Truthy(track_list[i].matched_series)
                        THEN [track_list[i] EXCEPT
                                !.suggested_album = sg.series_name,
                                !.suggested_artist = sg.suggested_artist,
                                !.suggested_genre = sg.suggested_genre,
                                !.suggested_album_artist = sg.suggested_album_artist]
                        ELSE track_list[i]]
        unique == unique_tracks(suggested)
        is_orphan == StartsWith(key, KeyOrphan)
    IN  [ series_name |-> sg.series_name,
          track_count |-> Len(unique),
          tracks |-> SortedBy(unique, TrackBefore),
          suggested_album |-> sg.series_name,
          suggested_artist |-> sg.suggested_artist,
          suggested_genre |-> sg.suggested_genre,
          suggested_album_artist |-> sg.suggested_album_artist,
          is_orphan |-> is_orphan,
          matched_series |-> IF is_orphan THEN track_list[1].matched_series ELSE None,
          alternative_matches |->
              IF is_orphan THEN track_list[1].alternative_matches ELSE <<>>,
          is_album_group |-> StartsWith(key, KeyAlbum) ]

SeriesEntry(key, track_list) ==
    SeriesEntryWith(key, track_list, Suggestions(track_list))

\* the order of the returned list by -track_count alone
SeriesBeforeCountOnly(a, b) == a.track_count > b.track_count

\* the order of the returned list: key (-1 if is_orphan else 0, -track_count)
SeriesBefore(a, b) ==
    LET first(x) == IF x.is_orphan THEN -1 ELSE 0
    IN  \/ first(a) < first(b)
        \/ first(a) = first(b) /\ a.track_count > b.track_count

\* Build final series list, sorted
SeriesList(series_groups, min_tracks) ==
    LET kept == SelectSeq(series_groups,
                          LAMBDA it : Emitted(it.key, it.val, min_tracks))
    IN  SortedBy([i \in DOMAIN kept |-> SeriesEntry(kept[i].key, kept[i].val)],
                 SeriesBefore)

(***************************************************************************)
(* get_tagged_series                                                       *)
(***************************************************************************)
S_Unknown == <<"U","n","k","n","o","w","n">>

\* esn is extract_series_name(track.filename)
TaggedEntry(track, esn) ==
    [ track_id |-> track.id,
      filename |-> track.filename,
      display_name |-> esn.display_name,
      current_album |-> track.album,
      matched_album |-> track.matched_album,
      current_artist |-> track.artist,
      matched_artist |-> track.matched_artist,
      current_genre |-> track.genre,
      matched_genre |-> track.matched_genre,
      current_album_artist |-> track.album_artist,
      matched_album_artist |-> track.matched_album_artist,
      matched_cover_url |-> track.matched_cover_url,
      episode |-> esn.episode,
      directory |-> track.directory ]

\* Group by album + artist + genre combination
RECURSIVE TaggedGroups(_, _, _)
TaggedGroups(rows, i, groups) ==
    IF i > Len(rows) THEN groups
    ELSE LET track == rows[i]
             album_key == OrElse(OrElse(track.matched_album, track.album), S_Unknown)
             artist_key == OrElse(OrElse(track.matched_artist, track.artist), S_Unknown)
             genre_key == OrElse(OrElse(track.matched_genre, track.genre), <<>>)
         IN  TaggedGroups(rows, i + 1,
                DictAppendTo(groups, <<album_key, artist_key, genre_key>>,
                             TaggedEntry(track, Extract(track.filename))))

\* f"{display_parts[0]} ({', '.join(display_parts[1:])})"
TaggedDisplayName(album_name, artist_name, genre_name) ==
    LET parts == (IF Truthy(artist_name) /\ artist_name /= S_Unknown
                     /\ artist_name /= S_Various
                  THEN <<artist_name>> ELSE <<>>)
                 \o (IF Truthy(genre_name) THEN <<genre_name>> ELSE <<>>)
    IN  IF parts = <<>> THEN album_name
        ELSE album_name \o <<" ", "(">> \o parts[1]
             \o (IF Len(parts) > 1 THEN <<",", " ">> \o parts[2] ELSE <<>>) \o <<")">>

TaggedSeriesEntry(key, track_list) ==
    LET album_artists == NonEmpty([i \in DOMAIN track_list |->
                            OrElse(track_list[i].matched_album_artist,
                                   track_list[i].current_album_artist)])
        cover_urls == NonEmpty([i \in DOMAIN track_list |-> track_list[i].matched_cover_url])
    IN  [ series_name |-> TaggedDisplayName(key[1], key[2], key[3]),
          track_count |-> Len(track_list),
          tracks |-> SortedBy(track_list, TrackBefore),
          suggested_album |-> key[1],
          suggested_artist |-> key[2],
          suggested_genre |-> key[3],
          suggested_album_artist |->
              IF album_artists /= <<>> THEN MostCommon(album_artists) ELSE <<>>,
          cover_url |->
              IF cover_urls /= <<>> /\ Cardinality(SeqRange(cover_urls)) = 1
              THEN cover_urls[1] ELSE None,
          is_tagged |-> TRUE ]

\* the series list of the groups kept
TaggedSeries(kept) ==
    SortedBy([i \in DOMAIN kept |-> TaggedSeriesEntry(kept[i].key, kept[i].val)],
             LAMBDA a, b : a.track_count > b.track_count)

\* the series list with the groups of every size
TaggedSeriesListAll(rows, min_tracks) == TaggedSeries(TaggedGroups(rows, 1, <<>>))

TaggedSeriesList(rows, min_tracks) ==
    TaggedSeries(SelectSeq(TaggedGroups(rows, 1, <<>>),
                           LAMBDA it : Len(it.val) >= min_tracks))

(***************************************************************************)
(* The handlers                                                            *)
(***************************************************************************)
\* get_min_duration_seconds()
get_min_duration_seconds == settings * 60

\* select(Track) with the optional where clauses, in row order
\* The rows a query gives in a session that has loaded rows before: a row whose
\* identity the session already holds comes back as the object loaded first,
\* with the attributes it was loaded with.
SessionRows(result, loaded) ==
    [i \in DOMAIN result |->
        IF \E k \in DOMAIN loaded : loaded[k].id = result[i].id
        THEN loaded[CHOOSE k \in DOMAIN loaded : loaded[k].id = result[i].id]
        ELSE result[i]]

\* the query without the where clause on series_tagged
QueryTracksAny(want_tagged, min_duration) ==
    SelectSeq(tracks, LAMBDA r : min_duration > 0 => r.duration >= min_duration)

QueryTracks(want_tagged, min_duration) ==
    SelectSeq(tracks, LAMBDA r :
        /\ want_tagged = "any" \/ (want_tagged = "yes") = r.series_tagged
        /\ min_duration > 0 => r.duration >= min_duration)

Idle ==
    [ op |-> "none", pc |-> "idle", min_tracks |-> 0, include_tagged |-> FALSE,
      min_duration |-> 0, rows |-> <<>>, tagged_rows |-> <<>>, response |-> <<>> ]

\* detect_series up to the first result set: the parameters, the minimum
\* duration and the candidate tracks
DetectQuery(min_tracks, include_tagged) ==
    /\ call.pc = "idle"
    /\ call' = [Idle EXCEPT
                  !.op = "detect_series", !.pc = "queried",
                  !.min_tracks = min_tracks, !.include_tagged = include_tagged,
                  !.min_duration = get_min_duration_seconds,
                  !.rows = QueryTracks(IF include_tagged THEN "any" ELSE "no",
                                       get_min_duration_seconds)]
    /\ UNCHANGED <<tracks, tagging_jobs, settings, sim, background>>

\* detect_series from there: the five methods, the query for the tagged
\* tracks in METHOD 4, and the series list
DetectCompute ==
    LET tagged_tracks == IF ~call.include_tagged
                         THEN SessionRows(QueryTracks("yes", call.min_duration),
                                          call.rows)
                         ELSE <<>>
    IN  call' = [call EXCEPT
                   !.pc = "done",
                   !.tagged_rows = tagged_tracks,
                   !.response = SeriesList(Candidates(call.rows, tagged_tracks,
                                                      call.min_tracks,
                                                      call.include_tagged),
                                           call.min_tracks)]

\* DetectFinish that also stores a status on the candidate tracks
DetectFinishMarking ==
    /\ call.op = "detect_series" /\ call.pc = "queried"
    /\ DetectCompute
    /\ tracks' = [i \in DOMAIN tracks |->
                    IF \E k \in DOMAIN call.rows : call.rows[k].id = tracks[i].id
                    THEN [tracks[i] EXCEPT !.status = "matched"]
                    ELSE tracks[i]]
    /\ UNCHANGED <<tagging_jobs, settings, sim, background>>

DetectFinish ==
    /\ call.op = "detect_series" /\ call.pc = "queried"
    /\ DetectCompute
    /\ UNCHANGED <<tracks, tagging_jobs, settings, sim, background>>

GetTaggedSeries(min_tracks) ==
    /\ call.pc = "idle"
    /\ LET rows == QueryTracks("yes", get_min_duration_seconds)
       IN  call' = [Idle EXCEPT
                      !.op = "get_tagged_series", !.pc = "done",
                      !.min_tracks = min_tracks,
                      !.min_duration = get_min_duration_seconds,
                      !.rows = rows,
                      !.response = TaggedSeriesList(rows, min_tracks)]
    /\ UNCHANGED <<tracks, tagging_jobs, settings, sim, background>>

\* the response is sent
Return ==
    /\ call.pc = "done"
    /\ call' = Idle
    /\ UNCHANGED <<tracks, tagging_jobs, settings, sim, background>>

(***************************************************************************)
(* Spec: the read handlers on every table                                  *)
(***************************************************************************)
NoSim == [name1 |-> <<>>, name2 |-> <<>>, pc |-> "idle", score |-> FracZero]

Init ==
    /\ tracks \in Tables
    /\ tagging_jobs = <<>>
    /\ settings \in {0, 1}
    /\ call = Idle
    /\ sim = NoSim
    /\ background = <<>>

Next ==
    \/ \E min_tracks \in 1..MaxMinTracks, include_tagged \in BOOLEAN :
          DetectQuery(min_tracks, include_tagged)
    \/ DetectFinish
    \/ \E min_tracks \in 1..MaxMinTracks : GetTaggedSeries(min_tracks)
    \/ Return

Spec == Init /\ [][Next]_vars

(***************************************************************************)
(* SpecSeries: detect_series on the tables that hold the files of one      *)
(* series and nothing else                                                 *)
(***************************************************************************)
InitSeries ==
    /\ tracks \in SeriesTables
    /\ tagging_jobs = <<>>
    /\ settings = 0
    /\ call = Idle
    /\ sim = NoSim
    /\ background = <<>>

NextSeries ==
    \/ \E min_tracks \in 1..MaxMinTracks, include_tagged \in BOOLEAN :
          DetectQuery(min_tracks, include_tagged)
    \/ DetectFinish
    \/ Return

SpecSeries == InitSeries /\ [][NextSeries]_vars

(***************************************************************************)
(* similarity_score on its own: the two names are drawn from the names of  *)
(* at most MaxNameWords words of a small vocabulary                        *)
(***************************************************************************)
Vocabulary ==
    { <<"g","a","i">>, <<"b","a","r","o","n","e">>,
      <<"p","a","t","t","e","r","n","s">>,
      <<"m","i","x">>,         \* a stop word
      <<"a","b">> }            \* too short for a token

MaxNameWords == 2

RECURSIVE JoinWords(_)
JoinWords(ws) ==
    IF ws = <<>> THEN <<>>
    ELSE IF Len(ws) = 1 THEN ws[1]
    ELSE ws[1] \o <<" ">> \o JoinWords(Tail(ws))

NamePool ==
    {JoinWords(ws) : ws \in UNION {[1..n -> Vocabulary] : n \in 0..MaxNameWords}}

InitSim ==
    /\ tracks = <<>>
    /\ tagging_jobs = <<>>
    /\ settings = 0
    /\ call = Idle
    /\ background = <<>>
    /\ \E name1, name2 \in NamePool :
          sim = [name1 |-> name1, name2 |-> name2, pc |-> "called", score |-> FracZero]

SimilarityScore ==
    /\ sim.pc = "called"
    /\ sim' = [sim EXCEPT !.pc = "done",
                          !.score = similarity_score(sim.name1, sim.name2)]
    /\ UNCHANGED <<tracks, tagging_jobs, settings, call, background>>

NextSim == SimilarityScore

SpecSim == InitSim /\ [][NextSim]_vars

(***************************************************************************)
(* The handlers that write: apply-album (inline for a small batch, a       *)
(* background job otherwise) and remove-from-series                        *)
(***************************************************************************)
\* the database update of apply-album on one track
ApplyToTrack(track, album, artist, genre, album_artist, cover_url) ==
    [track EXCEPT
        !.matched_album = album,
        !.album = album,
        !.matched_artist = IF Truthy(artist) THEN artist ELSE @,
        !.artist = IF Truthy(artist) THEN artist ELSE @,
        !.matched_genre = IF Truthy(genre) THEN genre ELSE @,
        !.genre = IF Truthy(genre) THEN genre ELSE @,
        !.matched_album_artist = IF Truthy(album_artist) THEN album_artist ELSE @,
        !.album_artist = IF Truthy(album_artist) THEN album_artist ELSE @,
        !.matched_cover_url = IF Truthy(cover_url) THEN cover_url ELSE @,
        !.status = IF @ = "pending" THEN "matched" ELSE @,
        !.series_tagged = TRUE]

\* the update of every track of the table
UpdateDatabaseEvery(successful_track_ids, in) ==
    [i \in DOMAIN tracks |->
        ApplyToTrack(tracks[i], in.album, in.artist, in.genre,
                     in.album_artist, in.cover_url)]

\* the update of the tracks whose file was written, committed
UpdateDatabase(successful_track_ids, in) ==
    [i \in DOMAIN tracks |->
        IF tracks[i].id \in successful_track_ids
        THEN ApplyToTrack(tracks[i], in.album, in.artist, in.genre,
                          in.album_artist, in.cover_url)
        ELSE tracks[i]]

\* the requested tracks that exist, in the order requested
TracksToProcess(track_ids) ==
    SelectSeq(track_ids, LAMBDA id : \E i \in DOMAIN tracks : tracks[i].id = id)

\* batches of fewer tracks are tagged before the endpoint returns
SyncLimit == 5

\* _apply_series_sync: ok are the tracks whose file was written
ApplySeriesSync(track_ids, in, ok) ==
    /\ Len(track_ids) < SyncLimit
    /\ ok \subseteq SeqRange(TracksToProcess(track_ids))
    /\ tracks' = IF ok /= {} THEN UpdateDatabase(ok, in) ELSE tracks
    /\ UNCHANGED <<tagging_jobs, settings, call, sim, background>>

Timestamp == <<"n","o","w">>

\* apply_series_album_endpoint for a large batch: the job is registered and
\* the task scheduled
ApplySeriesBackground(job_id, track_ids, in) ==
    /\ Len(track_ids) >= SyncLimit
    /\ ~DictHas(tagging_jobs, job_id)
    /\ tagging_jobs' = DictSet(tagging_jobs, job_id,
          [ status |-> "starting", total |-> Len(track_ids), processed |-> 0,
            written |-> 0, errors |-> <<>>, started_at |-> Timestamp,
            completed_at |-> None ])
    /\ background' = DictSet(background, job_id,
          [ pc |-> "scheduled", track_ids |-> track_ids, in |-> in,
            tracks_to_process |-> <<>>, successful_track_ids |-> <<>> ])
    /\ UNCHANGED <<tracks, settings, call, sim>>

Job(job_id) == DictGet(tagging_jobs, job_id)
Task(job_id) == DictGet(background, job_id)
At(job_id, pc) == DictHas(background, job_id) /\ Task(job_id).pc = pc

\* _apply_series_background up to its first wait: the cover download when a
\* cover_url was given, the first query otherwise
JobBegin(job_id) ==
    /\ At(job_id, "scheduled")
    /\ LET cover == Truthy(Task(job_id).in.cover_url)
       IN  /\ tagging_jobs' = DictSet(tagging_jobs, job_id,
                [Job(job_id) EXCEPT !.status = IF cover THEN "downloading_cover"
                                                ELSE "loading_tracks"])
           /\ background' = DictSet(background, job_id,
                [Task(job_id) EXCEPT !.pc = IF cover THEN "cover" ELSE "loading"])
    /\ UNCHANGED <<tracks, settings, call, sim>>

\* the cover is downloaded, or the download has failed
JobCover(job_id) ==
    /\ At(job_id, "cover")
    /\ tagging_jobs' = DictSet(tagging_jobs, job_id,
          [Job(job_id) EXCEPT !.status = "loading_tracks"])
    /\ background' = DictSet(background, job_id, [Task(job_id) EXCEPT !.pc = "loading"])
    /\ UNCHANGED <<tracks, settings, call, sim>>

\* the job left waiting for the database whatever was written
JobAfterFilesWaiting(job, successful_track_ids) ==
    [job EXCEPT !.status = "updating_database"]

\* the job once no file is left: with nothing to update it is completed at
\* once, otherwise it waits for the database
JobAfterFiles(job, successful_track_ids) ==
    IF successful_track_ids /= <<>>
    THEN [job EXCEPT !.status = "updating_database"]
    ELSE [job EXCEPT !.status = "completed", !.completed_at = Timestamp]
PcAfterFiles(successful_track_ids) ==
    IF successful_track_ids /= <<>> THEN "updating" ELSE "sleeping"

\* the track info list is built
JobLoad(job_id) ==
    /\ At(job_id, "loading")
    /\ LET tracks_to_process == TracksToProcess(Task(job_id).track_ids)
           job == [Job(job_id) EXCEPT !.status = "tagging",
                                      !.total = Len(tracks_to_process)]
       IN  /\ tagging_jobs' = DictSet(tagging_jobs, job_id,
                IF tracks_to_process = <<>> THEN JobAfterFiles(job, <<>>) ELSE job)
           /\ background' = DictSet(background, job_id,
                [Task(job_id) EXCEPT
                    !.pc = IF tracks_to_process = <<>> THEN PcAfterFiles(<<>>)
                           ELSE "tagging",
                    !.tracks_to_process = tracks_to_process])
    /\ UNCHANGED <<tracks, settings, call, sim>>

\* one file is processed, and a file that fails is not recorded
JobFileUnrecorded(job_id, success) ==
    /\ At(job_id, "tagging")
    /\ Job(job_id).processed < Len(Task(job_id).tracks_to_process)
    /\ LET i == Job(job_id).processed + 1
           track_id == Task(job_id).tracks_to_process[i]
       IN  /\ tagging_jobs' = DictSet(tagging_jobs, job_id,
                [Job(job_id) EXCEPT
                    !.written = IF success THEN @ + 1 ELSE @,
                    !.processed = i])
           /\ background' = DictSet(background, job_id,
                [Task(job_id) EXCEPT
                    !.successful_track_ids = IF success THEN Append(@, track_id) ELSE @])
    /\ UNCHANGED <<tracks, settings, call, sim>>

\* one file is processed: success, or a failed write, a timeout or an exception
JobFile(job_id, success) ==
    /\ At(job_id, "tagging")
    /\ Job(job_id).processed < Len(Task(job_id).tracks_to_process)
    /\ LET i == Job(job_id).processed + 1
           track_id == Task(job_id).tracks_to_process[i]
       IN  /\ tagging_jobs' = DictSet(tagging_jobs, job_id,
                [Job(job_id) EXCEPT
                    !.written = IF success THEN @ + 1 ELSE @,
                    !.errors = IF success THEN @ ELSE Append(@, track_id),
                    !.processed = i])
           /\ background' = DictSet(background, job_id,
                [Task(job_id) EXCEPT
                    !.successful_track_ids = IF success THEN Append(@, track_id) ELSE @])
    /\ UNCHANGED <<tracks, settings, call, sim>>

\* the loop over the files is left
JobFilesDone(job_id) ==
    /\ At(job_id, "tagging")
    /\ Job(job_id).processed = Len(Task(job_id).tracks_to_process)
    /\ tagging_jobs' = DictSet(tagging_jobs, job_id,
          JobAfterFiles(Job(job_id), Task(job_id).successful_track_ids))
    /\ background' = DictSet(background, job_id,
          [Task(job_id) EXCEPT !.pc = PcAfterFiles(Task(job_id).successful_track_ids)])
    /\ UNCHANGED <<tracks, settings, call, sim>>

\* the database is updated in a single transaction and the job completed
JobCommit(job_id) ==
    /\ At(job_id, "updating")
    /\ tracks' = UpdateDatabase(SeqRange(Task(job_id).successful_track_ids),
                                Task(job_id).in)
    /\ tagging_jobs' = DictSet(tagging_jobs, job_id,
          [Job(job_id) EXCEPT !.status = "completed", !.completed_at = Timestamp])
    /\ background' = DictSet(background, job_id, [Task(job_id) EXCEPT !.pc = "sleeping"])
    /\ UNCHANGED <<settings, call, sim>>

\* the job is cleaned up five minutes after it completed
JobCleanup(job_id) ==
    /\ At(job_id, "sleeping")
    /\ tagging_jobs' = DictDelAll(tagging_jobs, {job_id})
    /\ background' = DictDelAll(background, {job_id})
    /\ UNCHANGED <<tracks, settings, call, sim>>

\* get_tagging_job_status: the job's dict, or a not_found status for a job_id
\* that tagging_jobs does not hold
GetTaggingJobStatus(job_id) ==
    /\ call.pc = "idle"
    /\ call' = [Idle EXCEPT
                   !.op = "get_tagging_job_status", !.pc = "done",
                   !.response = IF ~DictHas(tagging_jobs, job_id)
                                THEN [status |-> "not_found", job_id |-> job_id]
                                ELSE Job(job_id)]
    /\ UNCHANGED <<tracks, tagging_jobs, settings, sim, background>>

\* remove_from_series: missing are the tracks whose file is not found
RemoveFromSeries(track_ids, missing) ==
    /\ tracks' = [i \in DOMAIN tracks |->
                    IF tracks[i].id \in SeqRange(track_ids) /\ tracks[i].id \notin missing
                    THEN [tracks[i] EXCEPT !.album = None, !.matched_album = None,
                                           !.series_tagged = FALSE]
                    ELSE tracks[i]]
    /\ UNCHANGED <<tagging_jobs, settings, call, sim, background>>

(***************************************************************************)
(* SpecConc: the read handlers while apply-album and remove-from-series    *)
(* run, on the tables of ConcTracks rows                                   *)
(***************************************************************************)
ConcTracks == 2

ConcPool ==
    { Track(0, F_patterns02, D_Sets, 3600, A_BestOf, None, None, FALSE),
      Track(0, F_Technotopia12, D_x, 3600, None, None, None, FALSE),
      [Track(0, F_Technotopia11, D_x, 3600, A_Technotopia, A_Technotopia, N_DJTek, TRUE)
          EXCEPT !.status = "tagged"] }

ConcTables ==
    { [i \in 1..ConcTracks |-> [f[i] EXCEPT !.id = i]] : f \in [1..ConcTracks -> ConcPool] }

G_Techno == <<"T","e","c","h","n","o">>

\* what apply-album is called with
ApplyInputs ==
    { [album |-> A_Technotopia, artist |-> N_DJTek, genre |-> G_Techno,
       album_artist |-> N_DJTek, cover_url |-> U_Cover] }

\* the same, and a call with the album alone
ApplyInputsAll ==
    ApplyInputs \cup
    { [album |-> A_BestOf, artist |-> None, genre |-> <<>>,
       album_artist |-> None, cover_url |-> None] }

TrackIdSets == SUBSET (1..ConcTracks)
\* the id lists of a small batch: one track, or all of them
SmallBatches == {<<i>> : i \in 1..ConcTracks} \cup {[i \in 1..ConcTracks |-> i]}
\* the id list of a large batch: ids 1..SyncLimit, not all of them stored
LargeBatch == [i \in 1..SyncLimit |-> i]

JobIds == {"a1b2c3d4"}

InitConc ==
    /\ tracks \in ConcTables
    /\ tagging_jobs = <<>>
    /\ settings = 0
    /\ call = Idle
    /\ sim = NoSim
    /\ background = <<>>

NextConc ==
    \/ \E include_tagged \in BOOLEAN : DetectQuery(ConcTracks, include_tagged)
    \/ DetectFinish
    \/ GetTaggedSeries(ConcTracks)
    \/ Return
    \/ \E track_ids \in SmallBatches, in \in ApplyInputs, ok \in TrackIdSets :
          ApplySeriesSync(track_ids, in, ok)
    \/ \E job_id \in JobIds, in \in ApplyInputs :
          ApplySeriesBackground(job_id, LargeBatch, in)
    \/ \E job_id \in JobIds : JobBegin(job_id)
    \/ \E job_id \in JobIds : JobCover(job_id)
    \/ \E job_id \in JobIds : JobLoad(job_id)
    \/ \E job_id \in JobIds, success \in BOOLEAN : JobFile(job_id, success)
    \/ \E job_id \in JobIds : JobFilesDone(job_id)
    \/ \E job_id \in JobIds : JobCommit(job_id)
    \/ \E job_id \in JobIds : JobCleanup(job_id)
    \/ \E track_ids \in SmallBatches, missing \in TrackIdSets :
          RemoveFromSeries(track_ids, missing)

SpecConc == InitConc /\ [][NextConc]_vars

(***************************************************************************)
(* SpecApply: apply-album on its own, inline and as a background job, with *)
(* every value given and with the album alone                              *)
(***************************************************************************)
InitApply == InitConc

NextApply ==
    \/ \E track_ids \in SmallBatches, in \in ApplyInputsAll, ok \in TrackIdSets :
          ApplySeriesSync(track_ids, in, ok)
    \/ \E job_id \in JobIds, in \in ApplyInputsAll :
          ApplySeriesBackground(job_id, LargeBatch, in)
    \/ \E job_id \in JobIds : JobBegin(job_id)
    \/ \E job_id \in JobIds : JobCover(job_id)
    \/ \E job_id \in JobIds : JobLoad(job_id)
    \/ \E job_id \in JobIds, success \in BOOLEAN : JobFile(job_id, success)
    \/ \E job_id \in JobIds : JobFilesDone(job_id)
    \/ \E job_id \in JobIds : JobCommit(job_id)
    \/ \E job_id \in JobIds : JobCleanup(job_id)

SpecApply == InitApply /\ [][NextApply]_vars

(***************************************************************************)
(* SpecJobs: the background jobs of apply-album and the status endpoint.   *)
(* The event loop resumes every task whose wait is over: the cover         *)
(* download and the database calls return, a file write returns or is      *)
(* timed out after FILE_TIMEOUT, a sleep ends.                             *)
(***************************************************************************)
\* the job ids that are asked for: the one a job gets, and one no job has
StatusIds == JobIds \cup {"00000000"}

\* the next step of the task of a job
JobStep(job_id) ==
    \/ JobBegin(job_id)
    \/ JobCover(job_id)
    \/ JobLoad(job_id)
    \/ \E success \in BOOLEAN : JobFile(job_id, success)
    \/ JobFilesDone(job_id)
    \/ JobCommit(job_id)
    \/ JobCleanup(job_id)

NextJobs ==
    \/ \E track_ids \in SmallBatches, in \in ApplyInputsAll, ok \in TrackIdSets :
          ApplySeriesSync(track_ids, in, ok)
    \/ \E job_id \in JobIds, in \in ApplyInputsAll :
          ApplySeriesBackground(job_id, LargeBatch, in)
    \/ \E job_id \in JobIds : JobStep(job_id)
    \/ \E job_id \in StatusIds : GetTaggingJobStatus(job_id)
    \/ Return

SpecJobs ==
    InitApply /\ [][NextJobs]_vars /\ \A job_id \in JobIds : WF_vars(JobStep(job_id))

(***************************************************************************)
(* Properties of detect_series                                             *)
(***************************************************************************)
DetectDone == call.op = "detect_series" /\ call.pc = "done"

\* the ids of the tracks of a returned group
TrackIds(g) == {g.tracks[k].track_id : k \in DOMAIN g.tracks}
\* the ids of the entries of a candidate
EntryIds(track_list) == {track_list[k].track_id : k \in DOMAIN track_list}

\* the candidates of the finished call: after METHOD 2, after METHOD 3, and
\* after METHOD 5
CallM2 == CandidatesM2(call.rows, call.min_tracks)
CallM3 == Method3(CallM2)
CallCandidates ==
    Candidates(call.rows, call.tagged_rows, call.min_tracks, call.include_tagged)
CallEmitted ==
    SelectSeq(CallCandidates, LAMBDA it : Emitted(it.key, it.val, call.min_tracks))

\* C1: in the output of detect_series no track_id appears in two different
\* non-orphan groups (the claim as stated; the code returns overlapping groups).
C1_Partition ==
    DetectDone =>
        \A i, j \in DOMAIN call.response :
            (i /= j /\ ~call.response[i].is_orphan /\ ~call.response[j].is_orphan)
            => TrackIds(call.response[i]) \cap TrackIds(call.response[j]) = {}

\* C2: every returned group that is not an orphan group has track_count >=
\* min_tracks, every orphan group has track_count >= 1, and track_count is the
\* number of distinct track ids of the group.
C2_MinimumSize ==
    DetectDone =>
        \A i \in DOMAIN call.response :
            LET g == call.response[i]
            IN  /\ ~g.is_orphan => g.track_count >= call.min_tracks
                /\ g.is_orphan => g.track_count >= 1
                /\ g.track_count = Cardinality(TrackIds(g))

\* a group above the minimum of 2 whose candidate held a track twice
C2_Witness ==
    /\ DetectDone /\ call.min_tracks = 2
    /\ \E i \in DOMAIN CallEmitted :
          /\ Len(CallEmitted[i].val) > Cardinality(EntryIds(CallEmitted[i].val))
          /\ ~StartsWith(CallEmitted[i].key, KeyOrphan)

\* the first entry with track_id id in a candidate
FirstSeen(track_list, id) ==
    track_list[CHOOSE k \in DOMAIN track_list :
                  /\ track_list[k].track_id = id
                  /\ \A j \in 1..(k - 1) : track_list[j].track_id /= id]

\* group g holds exactly the first-seen entries of candidate track_list
HoldsFirstSeen(g, track_list) ==
    /\ TrackIds(g) = EntryIds(track_list)
    /\ \A k \in DOMAIN g.tracks :
          LET e == FirstSeen(track_list, g.tracks[k].track_id)
          IN  /\ g.tracks[k].display_name = e.display_name
              /\ g.tracks[k].episode = e.episode
              /\ g.tracks[k].filename = e.filename

\* C3: in every returned group track_count is the length of tracks, no
\* track_id occurs twice in tracks, and of several entries with one track_id
\* in a candidate the first-seen one is the one returned.
C3_Deduplicated ==
    DetectDone =>
        /\ \A i \in DOMAIN call.response :
              LET g == call.response[i]
              IN  /\ g.track_count = Len(g.tracks)
                  /\ \A a, b \in DOMAIN g.tracks :
                        a /= b => g.tracks[a].track_id /= g.tracks[b].track_id
        /\ Len(call.response) = Len(CallEmitted)
        /\ \A c \in DOMAIN CallEmitted :
              \E i \in DOMAIN call.response :
                  HoldsFirstSeen(call.response[i], CallEmitted[c].val)

\* a returned group whose candidate held two different entries of one track
\* (a directory candidate merged into a filename-key candidate)
C3_Witness ==
    /\ DetectDone
    /\ \E c \in DOMAIN CallEmitted :
          \E a, b \in DOMAIN CallEmitted[c].val :
              /\ a < b
              /\ CallEmitted[c].val[a].track_id = CallEmitted[c].val[b].track_id
              /\ CallEmitted[c].val[a].display_name /= CallEmitted[c].val[b].display_name

(***************************************************************************)
(* Properties of METHOD 3 and METHOD 4 within detect_series                *)
(***************************************************************************)
\* series_keys, the candidate keys METHOD 3 iterates, in order
CallKeys == DictKeys(CallM2)
KeySet == {CallKeys[i] : i \in DOMAIN CallKeys}
Pos(k) == CHOOSE i \in DOMAIN CallKeys : CallKeys[i] = k

\* the candidates with every track list replaced by the candidate's own key:
\* METHOD 3 on these tells which keys were merged into which
KeyMarked(series_groups) ==
    [i \in DOMAIN series_groups |->
        [key |-> series_groups[i].key, val |-> <<series_groups[i].key>>]]
CallMerged == Method3(KeyMarked(CallM2))
MergedInto(k) == LET l == DictGet(CallMerged, k) IN {l[i] : i \in DOMAIN l}
Survives(k) == DictHas(CallMerged, k)
SameCandidate(a, c) ==
    \E k \in KeySet : Survives(k) /\ a \in MergedInto(k) /\ c \in MergedInto(k)

Similar(a, b) == FracGT(similarity_score(a, b), FracHalf)

\* sim(A,B) > 0.5 and sim(B,C) > 0.5 but sim(A,C) <= 0.5
Chain(a, b, c) ==
    /\ a /= b /\ b /= c /\ a /= c
    /\ Similar(a, b) /\ Similar(b, c) /\ ~Similar(a, c)

\* a key iterated before both a and c that is similar to both
CommonEarlier(a, c) ==
    \E k \in KeySet : /\ Pos(k) < Pos(a) /\ Pos(k) < Pos(c)
                      /\ Similar(k, a) /\ Similar(k, c)

\* C8 as stated: for candidate keys A, B, C with sim(A,B) > 0.5, sim(B,C) > 0.5
\* and sim(A,C) <= 0.5, the tracks of A and of C are in different candidates
\* after METHOD 3, for every order of the keys.
C8_EveryOrder ==
    DetectDone =>
        \A a, b, c \in KeySet : Chain(a, b, c) => ~SameCandidate(a, c)

\* C8: for candidate keys A, B, C with sim(A,B) > 0.5, sim(B,C) > 0.5 and
\* sim(A,C) <= 0.5, the tracks of A and of C are in different candidates after
\* METHOD 3 unless a key similar to both A and C (such as B) is iterated
\* before both of them.
C8_NonTransitive ==
    DetectDone =>
        \A a, b, c \in KeySet :
            (Chain(a, b, c) /\ ~CommonEarlier(a, c)) => ~SameCandidate(a, c)

\* A is iterated first and takes B; C stays a candidate of its own
C8_Witness ==
    /\ DetectDone
    /\ \E a, b, c \in KeySet :
          /\ Chain(a, b, c) /\ ~CommonEarlier(a, c)
          /\ Pos(a) < Pos(b) /\ Pos(a) < Pos(c)
          /\ SameCandidate(a, b) /\ ~SameCandidate(a, c) /\ Survives(c)

\* the pair (k1, k2) is examined with neither key consumed: k1 was not merged
\* into an earlier key, and k2 was not merged into a key before k1
Examined(k1, k2) ==
    /\ Pos(k1) < Pos(k2)
    /\ Survives(k1)
    /\ \A k0 \in KeySet : (Pos(k0) < Pos(k1) /\ Survives(k0)) => k2 \notin MergedInto(k0)

\* all of k2's tracks are appended to k1's candidate and k2 is removed
Appended(k1, k2) ==
    /\ ~DictHas(CallM3, k2)
    /\ DictHas(CallM3, k1)
    /\ LET l1 == DictGet(CallM3, k1)
           l2 == DictGet(CallM2, k2)
           n1 == Len(DictGet(CallM2, k1))
       IN  \E at \in n1..(Len(l1) - Len(l2)) : SubSeq(l1, at + 1, at + Len(l2)) = l2

C9_MergeSimilar ==
    \A k1, k2 \in KeySet :
        (Similar(k1, k2) /\ Examined(k1, k2)) => Appended(k1, k2)

K_GaiBaronePatterns == StrLower(<<"G","a","i"," ","B","a","r","o","n","e"," ","P","a","t","t","e","r","n","s">>)
K_Patterns == StrLower(<<"P","a","t","t","e","r","n","s">>)

OneCandidate(a, c) ==
    \E i \in DOMAIN CallM3 :
        /\ DictGet(CallM2, a) \o DictGet(CallM2, c) /= <<>>
        /\ \A e \in EntryIds(DictGet(CallM2, a) \o DictGet(CallM2, c)) :
              e \in EntryIds(CallM3[i].val)
        /\ SameCandidate(a, c)

\* no key iterated before a or before c is similar to either of them
NoEarlierSimilar(a, c) ==
    \A k \in KeySet \ {a, c} :
        (Pos(k) < Pos(a) \/ Pos(k) < Pos(c)) => (~Similar(k, a) /\ ~Similar(k, c))

\* C9 as stated: a similar pair examined with neither key consumed is merged
\* into the earlier key, and the filename-key candidates "gai barone patterns"
\* and "patterns" always end up as one candidate.
C9_AlwaysOne ==
    DetectDone =>
        /\ C9_MergeSimilar
        /\ ({K_GaiBaronePatterns, K_Patterns} \subseteq KeySet
            => OneCandidate(K_GaiBaronePatterns, K_Patterns))

\* C9: whenever a key k1 iterated earlier and a key k2 have similarity > 0.5
\* and neither has been consumed when the pair is examined, all of k2's tracks
\* are appended to k1's candidate and k2 is removed; "gai barone patterns" and
\* "patterns" end up as one candidate when no key iterated before one of them
\* is similar to either.
C9_Merge ==
    DetectDone =>
        /\ C9_MergeSimilar
        /\ (/\ {K_GaiBaronePatterns, K_Patterns} \subseteq KeySet
            /\ NoEarlierSimilar(K_GaiBaronePatterns, K_Patterns))
           => OneCandidate(K_GaiBaronePatterns, K_Patterns)

\* "patterns" is iterated first and takes "gai barone patterns", with a third
\* key present
C9_Witness ==
    /\ DetectDone
    /\ {K_GaiBaronePatterns, K_Patterns} \subseteq KeySet
    /\ Len(CallKeys) >= 3
    /\ Pos(K_Patterns) < Pos(K_GaiBaronePatterns)
    /\ NoEarlierSimilar(K_GaiBaronePatterns, K_Patterns)
    /\ Examined(K_Patterns, K_GaiBaronePatterns)
    /\ Appended(K_Patterns, K_GaiBaronePatterns)
    /\ OneCandidate(K_GaiBaronePatterns, K_Patterns)

\* a track is unclaimed when no candidate other than a directory candidate
\* that meets the minimum holds it after METHOD 3
Unclaimed(id) ==
    \A i \in DOMAIN CallM3 :
        (~StartsWith(CallM3[i].key, KeyDir) /\ Len(CallM3[i].val) >= call.min_tracks)
        => id \notin EntryIds(CallM3[i].val)

\* the effective album of a tagged track, and its normalized form
EffectiveAlbum(t) == OrElse(t.matched_album, t.album)
NormalizedAlbum(t) == Strip(StripSpecial(EffectiveAlbum(t)))
TaggedWithAlbum == {k \in DOMAIN call.tagged_rows : Truthy(EffectiveAlbum(call.tagged_rows[k]))}
AlbumScore(r, k) ==
    similarity_score(Extract(r.filename).normalized, NormalizedAlbum(call.tagged_rows[k]))
Matching(r) == {k \in TaggedWithAlbum : FracGT(AlbumScore(r, k), FracHalf)}
BestMatching(r) ==
    {k \in Matching(r) : \A j \in Matching(r) : ~FracGT(AlbumScore(r, j), AlbumScore(r, k))}
\* the album's entry: the first tagged track with that normalized album
AlbumEntry(k) ==
    call.tagged_rows[CHOOSE j \in TaggedWithAlbum :
        /\ NormalizedAlbum(call.tagged_rows[j]) = NormalizedAlbum(call.tagged_rows[k])
        /\ \A h \in TaggedWithAlbum :
              NormalizedAlbum(call.tagged_rows[h]) = NormalizedAlbum(call.tagged_rows[k])
              => j <= h]

OrphanGroupOf(g, r, e) ==
    /\ g.is_orphan /\ g.track_count = 1 /\ Len(g.tracks) = 1
    /\ g.tracks[1].track_id = r.id
    /\ g.matched_series = EffectiveAlbum(e)
    /\ g.series_name = EffectiveAlbum(e)
    /\ g.suggested_album = EffectiveAlbum(e)
    /\ g.suggested_artist = OrElse(e.matched_artist, e.artist)
    /\ g.suggested_genre = OrElse(OrElse(e.matched_genre, e.genre), <<>>)
    /\ g.suggested_album_artist = OrElse(OrElse(e.matched_album_artist, e.album_artist), <<>>)

\* C10: with include_tagged false, an unclaimed track whose comparison key
\* scores > 0.5 against the normalized effective album of some series_tagged
\* track is returned as a group of its own with is_orphan true, track_count 1,
\* and matched_series, series_name and suggested_album equal to the
\* best-scoring tagged album (artist, genre and album_artist from that album's
\* entry), for every min_tracks.
C10_Orphan ==
    (DetectDone /\ ~call.include_tagged) =>
        \A x \in DOMAIN call.rows :
            LET r == call.rows[x]
            IN  (Unclaimed(r.id) /\ Matching(r) /= {}) =>
                    \E i \in DOMAIN call.response : \E k \in BestMatching(r) :
                        OrphanGroupOf(call.response[i], r, AlbumEntry(k))

\* an orphan group returned although min_tracks is 2
C10_Witness ==
    /\ DetectDone /\ ~call.include_tagged /\ call.min_tracks >= 2
    /\ \E x \in DOMAIN call.rows :
          /\ Unclaimed(call.rows[x].id) /\ Matching(call.rows[x]) /= {}
          /\ \E i \in DOMAIN call.response :
                /\ call.response[i].is_orphan
                /\ call.response[i].tracks[1].track_id = call.rows[x].id
                /\ call.response[i].matched_series = A_Technotopia

(***************************************************************************)
(* Properties of similarity_score                                          *)
(***************************************************************************)
Min(a, b) == IF a <= b THEN a ELSE b
Max(a, b) == IF a >= b THEN a ELSE b

\* the score of two token sets as the documentation gives it
ReferenceScore(A, B) ==
    LET jaccard == Frac(Cardinality(A \cap B), Cardinality(A \cup B))
        small == Min(Cardinality(A), Cardinality(B))
        large == Max(Cardinality(A), Cardinality(B))
        \* 0.5 + 0.5 * small / large
        contained == Frac(large + small, 2 * large)
    IN  IF A = {} \/ B = {} THEN FracZero
        ELSE IF A \subseteq B \/ B \subseteq A
             THEN (IF FracGT(contained, jaccard) THEN contained ELSE jaccard)
             ELSE jaccard

\* C7: similarity_score(k1, k2) is 0 when either token set is empty, is
\* max(|A n B| / |A u B|, 0.5 + 0.5 * min(|A|,|B|) / max(|A|,|B|)) when one token
\* set is contained in the other, and |A n B| / |A u B| otherwise; it lies in
\* [0, 1] and exceeds 0.5 whenever one non-empty token set is contained in the
\* other.
C7_Similarity ==
    sim.pc = "done" =>
        LET A == get_name_tokens(sim.name1)
            B == get_name_tokens(sim.name2)
        IN  /\ sim.score = ReferenceScore(A, B)
            /\ ~FracGT(FracZero, sim.score) /\ ~FracGT(sim.score, FracOne)
            /\ (A /= {} /\ B /= {} /\ (A \subseteq B \/ B \subseteq A))
               => FracGT(sim.score, FracHalf)

\* a token set properly contained in the other: the Jaccard index alone is
\* not above 0.5, the score is
C7_Witness ==
    /\ sim.pc = "done"
    /\ LET A == get_name_tokens(sim.name1)
           B == get_name_tokens(sim.name2)
       IN  /\ A /= {} /\ A \subseteq B /\ A /= B
           /\ ~FracGT(Frac(Cardinality(A \cap B), Cardinality(A \cup B)), FracHalf)
           /\ FracGT(sim.score, FracHalf)

(***************************************************************************)
(* Properties of the read handlers while the writers run                   *)
(***************************************************************************)
\* C5: detect_series and get_tagged_series leave every stored track record and
\* the tagging_jobs table unchanged: every step of one of the two handlers
\* (every step that changes the state of the read call) leaves tracks and
\* tagging_jobs as they were.
C5_ReadOnly ==
    [][call' /= call => UNCHANGED <<tracks, tagging_jobs>>]_vars

\* detect_series has answered with groups while a job is registered and a
\* track has been tagged by apply-album
C5_Witness ==
    /\ DetectDone /\ call.response /= <<>>
    /\ tagging_jobs /= <<>>
    /\ \E i \in DOMAIN tracks : tracks[i].status = "matched"

\* C6: in one invocation of detect_series no track is both among the untagged
\* candidates and a contributor of its album to the tagged-series map (the
\* claim as stated; the two queries of the code see different database states).
C6_SingleSnapshot ==
    (DetectDone /\ ~call.include_tagged) =>
        \A x \in DOMAIN call.rows : \A k \in DOMAIN call.tagged_rows :
            (call.rows[x].id = call.tagged_rows[k].id)
            => ~Truthy(EffectiveAlbum(call.tagged_rows[k]))

(***************************************************************************)
(* File names of one series (SpecSeries)                                   *)
(***************************************************************************)
\* the base name the files of the table are made from
TableBase == CHOOSE base \in Bases : \A i \in DOMAIN tracks : tracks[i].filename \in SeriesFiles(base)

\* what the file name of a series normalizes to, as the claim has it: the
\* words joined by spaces, the same in lower case, and the digits
SeriesParts(base, episode) ==
    [ display_name |-> Joined(base, <<" ">>),
      normalized |-> StrLower(Joined(base, <<" ">>)),
      episode |-> episode ]

NormalizesAsSeries(base) ==
    \A sep \in Separators, episode \in Episodes, ext \in Extensions :
        Extract(SeriesFile(base, sep, episode, ext)) = SeriesParts(base, episode)

\* the response is one group that holds the whole table under the base name
OneSeriesGroup(base) ==
    /\ Len(call.response) = 1
    /\ call.response[1].series_name = Joined(base, <<" ">>)
    /\ call.response[1].track_count = Len(tracks)

\* the base names METHOD 1 keeps whole: a key longer than 3 characters and
\* no trailing "part" for the digits to be taken with
KeptWhole(base) ==
    /\ Len(StrLower(Joined(base, <<" ">>))) > 3
    /\ StrLower(base[Len(base)]) /= <<"p","a","r","t">>

KeyKind(key) ==
    IF StartsWith(key, KeyDir) THEN 2
    ELSE IF StartsWith(key, KeyOrphan) THEN 3
    ELSE IF StartsWith(key, KeyAlbum) THEN 4
    ELSE 1

\* the groups the emitted candidates give, in the order of their keys
EmittedEntries ==
    [c \in DOMAIN CallEmitted |-> SeriesEntry(CallEmitted[c].key, CallEmitted[c].val)]

\* the response is the entries in some order that keeps the entries of equal
\* rank (is_orphan, track_count) in the order of their keys
KeepsKeyOrder(entries, response) ==
    /\ Len(response) = Len(entries)
    /\ \E p \in [DOMAIN response -> DOMAIN entries] :
          /\ \A i, j \in DOMAIN response : i /= j => p[i] /= p[j]
          /\ \A i \in DOMAIN response : response[i] = entries[p[i]]
          /\ \A i, j \in DOMAIN response :
                ( /\ i < j
                  /\ response[i].is_orphan = response[j].is_orphan
                  /\ response[i].track_count = response[j].track_count )
                => p[i] < p[j]

\* C12: the returned list has every is_orphan group before every other
\* group, the other groups in non-increasing track_count, and groups of equal
\* track_count in the order their candidate keys were created: filename keys,
\* directory keys, orphan keys, album keys.
C12_ListOrder ==
    DetectDone =>
        /\ \A i, j \in DOMAIN call.response :
              i < j =>
                /\ call.response[j].is_orphan => call.response[i].is_orphan
                /\ (~call.response[i].is_orphan /\ ~call.response[j].is_orphan)
                   => call.response[i].track_count >= call.response[j].track_count
        /\ \A c, d \in DOMAIN CallCandidates :
              c < d => KeyKind(CallCandidates[c].key) <= KeyKind(CallCandidates[d].key)
        /\ KeepsKeyOrder(EmittedEntries, call.response)

\* an orphan group returned first although a directory key was created before
\* its key, followed by the group of that directory
C12_Witness ==
    /\ DetectDone /\ Len(call.response) = 2
    /\ call.response[1].is_orphan /\ call.response[1].track_count = 1
    /\ ~call.response[2].is_orphan /\ call.response[2].track_count = 2
    /\ StartsWith(CallEmitted[1].key, KeyDir)
    /\ StartsWith(CallEmitted[2].key, KeyOrphan)

\* the episode of a track as a number: int(episode) of a string of digits,
\* 0 otherwise
EpisodeOf(t) == IF t.episode /= None /\ IsDigitStr(t.episode) THEN StrToInt(t.episode) ELSE 0

\* (episode, filename) of a is not after that of b
NotAfter(a, b) ==
    \/ EpisodeOf(a) < EpisodeOf(b)
    \/ EpisodeOf(a) = EpisodeOf(b)
       /\ (a.filename = b.filename \/ StrLess(a.filename, b.filename))

NoEpisode(t) == t.episode = None

\* C13: in every returned group the tracks are in ascending order of (the
\* episode as a number if it is all digits, else 0; the filename); the tracks
\* of directory and album candidates have no episode, and a track without an
\* episode comes before every track with a positive episode.
C13_TrackOrder ==
    DetectDone =>
        /\ \A g \in DOMAIN call.response :
              \A i, j \in DOMAIN call.response[g].tracks :
                 i < j =>
                    /\ NotAfter(call.response[g].tracks[i], call.response[g].tracks[j])
                    /\ ~( NoEpisode(call.response[g].tracks[j])
                          /\ EpisodeOf(call.response[g].tracks[i]) > 0 )
        /\ \A c \in DOMAIN CallEmitted :
              KeyKind(CallEmitted[c].key) \in {2, 4} =>
                 \A k \in DOMAIN CallEmitted[c].val : NoEpisode(CallEmitted[c].val[k])
        /\ \A g \in DOMAIN call.response :
              call.response[g].is_album_group =>
                 \A k \in DOMAIN call.response[g].tracks :
                    NoEpisode(call.response[g].tracks[k])

\* a group whose episodes put a track first that the filenames alone would
\* put second
C13_Witness ==
    /\ DetectDone
    /\ \E g \in DOMAIN call.response :
          /\ Len(call.response[g].tracks) = 2
          /\ EpisodeOf(call.response[g].tracks[1]) > 0
          /\ EpisodeOf(call.response[g].tracks[1]) < EpisodeOf(call.response[g].tracks[2])
          /\ StrLess(call.response[g].tracks[2].filename, call.response[g].tracks[1].filename)

(***************************************************************************)
(* get_tagged_series                                                       *)
(***************************************************************************)
TaggedDone == call.op = "get_tagged_series" /\ call.pc = "done"

\* the rows of the table get_tagged_series reads: tagged, and of the minimum
\* duration when one is set
TaggedRows ==
    {i \in DOMAIN tracks :
        /\ tracks[i].series_tagged
        /\ call.min_duration > 0 => tracks[i].duration >= call.min_duration}

\* (effective album, effective artist, effective genre) of a row
EffectiveKey(t) ==
    << OrElse(OrElse(t.matched_album, t.album), S_Unknown),
       OrElse(OrElse(t.matched_artist, t.artist), S_Unknown),
       OrElse(OrElse(t.matched_genre, t.genre), <<>>) >>

\* the ids of the tagged rows with the key of row i
SharingKey(i) ==
    {tracks[k].id : k \in {k \in TaggedRows : EffectiveKey(tracks[k]) = EffectiveKey(tracks[i])}}

\* the returned group g is the group of row i
TaggedGroupOf(g, i) ==
    /\ TrackIds(g) = SharingKey(i)
    /\ g.track_count = Cardinality(SharingKey(i))
    /\ Len(g.tracks) = g.track_count
    /\ <<g.suggested_album, g.suggested_artist, g.suggested_genre>> = EffectiveKey(tracks[i])

\* C14: get_tagged_series returns exactly the groups of series_tagged tracks
\* that share (effective album, effective artist, effective genre) and have
\* at least min_tracks members; a tagged track is in at most one group, an
\* untagged track in none, and the groups are in non-increasing track_count.
C14_TaggedGroups ==
    TaggedDone =>
        /\ \A g \in DOMAIN call.response :
              \E i \in TaggedRows :
                 /\ TaggedGroupOf(call.response[g], i)
                 /\ Cardinality(SharingKey(i)) >= call.min_tracks
        /\ \A i \in TaggedRows :
              Cardinality(SharingKey(i)) >= call.min_tracks =>
                 \E g \in DOMAIN call.response : TaggedGroupOf(call.response[g], i)
        /\ \A g, h \in DOMAIN call.response :
              g /= h => TrackIds(call.response[g]) \cap TrackIds(call.response[h]) = {}
        /\ \A g \in DOMAIN call.response :
              \A k \in DOMAIN call.response[g].tracks :
                 \E i \in DOMAIN tracks :
                    /\ tracks[i].id = call.response[g].tracks[k].track_id
                    /\ tracks[i].series_tagged
        /\ \A g, h \in DOMAIN call.response :
              g < h => call.response[g].track_count >= call.response[h].track_count

\* two groups returned, the larger first although its rows come later in the
\* table
C14_Witness ==
    /\ TaggedDone /\ Len(tracks) = 3 /\ call.min_tracks = 1
    /\ Len(call.response) = 2
    /\ call.response[1].track_count = 2 /\ call.response[2].track_count = 1
    /\ TrackIds(call.response[1]) = {tracks[2].id, tracks[3].id}
    /\ TrackIds(call.response[2]) = {tracks[1].id}

\* C15: in get_tagged_series the cover_url of a group is set only if every
\* member has the same non-empty matched_cover_url; it is null if a member
\* has none or two members differ (the claim as stated; the code compares the
\* covers of the members that have one and leaves the others out).
C15_SharedCover ==
    TaggedDone =>
        \A g \in DOMAIN call.response :
           /\ call.response[g].cover_url /= None =>
                 \A k \in DOMAIN call.response[g].tracks :
                    call.response[g].tracks[k].matched_cover_url = call.response[g].cover_url
           /\ ( \/ \E k \in DOMAIN call.response[g].tracks :
                       ~Truthy(call.response[g].tracks[k].matched_cover_url)
                \/ \E k, l \in DOMAIN call.response[g].tracks :
                       call.response[g].tracks[k].matched_cover_url
                          /= call.response[g].tracks[l].matched_cover_url )
              => call.response[g].cover_url = None

(***************************************************************************)
(* apply-album (SpecApply)                                                 *)
(***************************************************************************)
\* a value was given in the request
Supplied(x) == x /= None /\ x /= <<>>

\* after is the record before with the values of the request stored
StoredOn(before, after, in) ==
    /\ after.album = in.album /\ after.matched_album = in.album
    /\ after.artist = (IF Supplied(in.artist) THEN in.artist ELSE before.artist)
    /\ after.matched_artist = (IF Supplied(in.artist) THEN in.artist ELSE before.matched_artist)
    /\ after.genre = (IF Supplied(in.genre) THEN in.genre ELSE before.genre)
    /\ after.matched_genre = (IF Supplied(in.genre) THEN in.genre ELSE before.matched_genre)
    /\ after.album_artist = (IF Supplied(in.album_artist) THEN in.album_artist ELSE before.album_artist)
    /\ after.matched_album_artist = (IF Supplied(in.album_artist) THEN in.album_artist ELSE before.matched_album_artist)
    /\ after.matched_cover_url = (IF Supplied(in.cover_url) THEN in.cover_url ELSE before.matched_cover_url)
    /\ after.series_tagged
    /\ after.status = (IF before.status = "pending" THEN "matched" ELSE before.status)
    /\ <<after.id, after.filename, after.directory, after.duration>>
          = <<before.id, before.filename, before.directory, before.duration>>

\* the step stores the request on the rows with these ids and leaves every
\* other row as it is
StoresOnly(ids, in) ==
    /\ DOMAIN tracks' = DOMAIN tracks
    /\ \A i \in DOMAIN tracks :
          IF tracks[i].id \in ids THEN StoredOn(tracks[i], tracks'[i], in)
          ELSE tracks'[i] = tracks[i]

\* C16: apply-album, inline and in the background, changes the stored record
\* of the requested tracks whose file was written and of no other track: it
\* sets album and matched_album, artist, genre, album_artist and cover when
\* given, series_tagged, and the status "matched" in place of "pending" only;
\* a track whose write failed, timed out or raised keeps every field.
C16_WrittenOnly ==
    [][ /\ \A track_ids \in SmallBatches, in \in ApplyInputsAll, ok \in TrackIdSets :
              ApplySeriesSync(track_ids, in, ok)
                 => StoresOnly(ok \cap SeqRange(track_ids), in)
        /\ \A job_id \in JobIds :
              /\ JobCommit(job_id)
                    => StoresOnly(SeqRange(Task(job_id).successful_track_ids)
                                     \cap SeqRange(Task(job_id).track_ids),
                                  Task(job_id).in)
              /\ JobFile(job_id, FALSE)
                    => /\ DictGet(background', job_id).successful_track_ids
                             = Task(job_id).successful_track_ids
                       /\ tracks' = tracks
              /\ ( \/ JobBegin(job_id) \/ JobCover(job_id) \/ JobLoad(job_id)
                   \/ JobFile(job_id, TRUE) \/ JobFilesDone(job_id)
                   \/ JobCleanup(job_id) )
                    => tracks' = tracks
        /\ \A job_id \in JobIds, in \in ApplyInputsAll :
              ApplySeriesBackground(job_id, LargeBatch, in) => tracks' = tracks
      ]_vars

\* a background job completed with one file written and one failed: the row
\* of the written file is tagged with the album of the request, the row of
\* the failed one is as it was
C16_Witness ==
    /\ DictHas(tagging_jobs, "a1b2c3d4")
    /\ Job("a1b2c3d4").status = "completed"
    /\ Job("a1b2c3d4").written = 1 /\ Job("a1b2c3d4").errors = <<2>>
    /\ Task("a1b2c3d4").in.album = A_BestOf
    /\ tracks[1].series_tagged /\ tracks[1].matched_album = A_BestOf
    /\ tracks[1].status = "matched" /\ tracks[1].matched_cover_url = None
    /\ ~tracks[2].series_tagged /\ tracks[2].status = "pending"
    /\ tracks[2].matched_album = None

(***************************************************************************)
(* The candidates of METHOD 1, METHOD 2 and METHOD 5                       *)
(***************************************************************************)
\* the candidates of METHOD 1, the directory groups, the tracks claimed
\* when METHOD 5 starts and its album groups, of the finished call
CallM1 == Method1(call.rows, 1, <<>>)
CallDirGroups == DirGroups(call.rows, 1, <<>>)
CallClaimedM4 ==
    CandidatesM4(call.rows, call.tagged_rows, call.min_tracks, call.include_tagged).existing
CallAlbumGroups == AlbumGroups(call.rows, 1, CallClaimedM4, <<>>)

\* the comparison key of a row
KeyOf(r) == Extract(r.filename).normalized

\* how many entries of a track list are of this track
TimesIn(track_list, id) ==
    Cardinality({k \in DOMAIN track_list : track_list[k].track_id = id})

\* the album METHOD 5 reads from a row is one it groups by
HasAlbum(r) ==
    /\ Truthy(OrElse(r.album, r.matched_album))
    /\ Len(OrElse(r.album, r.matched_album)) > 2
    /\ Strip(StripSpecial(OrElse(r.album, r.matched_album))) /= <<>>

\* C17: METHOD 1 places a track in a filename-key candidate iff its key is
\* longer than 3 characters, and then in the candidate of its key and in no
\* other; a track with a key of 3 characters or fewer is in no filename-key
\* candidate, but it is in the group of its directory and, when it has an
\* album and is not claimed, in the album group of that album.
C17_KeyLength ==
    DetectDone =>
        \A r \in DOMAIN call.rows :
           /\ \A c \in DOMAIN CallM1 :
                 TimesIn(CallM1[c].val, call.rows[r].id) =
                    (IF Len(KeyOf(call.rows[r])) > 3 /\ CallM1[c].key = KeyOf(call.rows[r])
                     THEN 1 ELSE 0)
           /\ Len(KeyOf(call.rows[r])) > 3 =>
                 \E c \in DOMAIN CallM1 : CallM1[c].key = KeyOf(call.rows[r])
           /\ Len(KeyOf(call.rows[r])) <= 3 =>
                 /\ \E d \in DOMAIN CallDirGroups :
                       /\ CallDirGroups[d].key = call.rows[r].directory
                       /\ TimesIn(CallDirGroups[d].val, call.rows[r].id) = 1
                 /\ (HasAlbum(call.rows[r]) /\ call.rows[r].id \notin CallClaimedM4) =>
                       \E a \in DOMAIN CallAlbumGroups :
                          TimesIn(CallAlbumGroups[a].val, call.rows[r].id) = 1

\* a track with the key "ab" beside one with the key "patterns": the first
\* is in no candidate of METHOD 1 and comes back in an album group, the
\* second is in the candidate of its key
C17_Witness ==
    /\ DetectDone
    /\ \E r, q \in DOMAIN call.rows :
          /\ KeyOf(call.rows[r]) = <<"a","b">>
          /\ KeyOf(call.rows[q]) = K_Patterns
          /\ \E c \in DOMAIN CallM1 : call.rows[q].id \in EntryIds(CallM1[c].val)
          /\ \E g \in DOMAIN call.response :
                /\ call.response[g].is_album_group
                /\ call.rows[r].id \in TrackIds(call.response[g])

\* the rows of a directory, and those of them in no candidate of METHOD 1
\* that has min_tracks tracks
InDirectory(d) == {r \in DOMAIN call.rows : call.rows[r].directory = d}
ClaimedM1(id) ==
    \E c \in DOMAIN CallM1 :
       Len(CallM1[c].val) >= call.min_tracks /\ id \in EntryIds(CallM1[c].val)
FreeInDirectory(d) == {r \in InDirectory(d) : ~ClaimedM1(call.rows[r].id)}

\* the candidate is the one of directory d
DirCandidateOf(cand, d) ==
    /\ cand.key = KeyDir \o Strip(StripSpecial(DirName(d)))
    /\ Cardinality(InDirectory(d)) >= call.min_tracks
    /\ Cardinality(FreeInDirectory(d)) >= call.min_tracks
    /\ Len(cand.val) = Cardinality(FreeInDirectory(d))
    /\ EntryIds(cand.val) = {call.rows[r].id : r \in FreeInDirectory(d)}

\* C18: METHOD 2 creates a directory candidate only if the directory holds
\* at least min_tracks tracks and at least min_tracks of them are in no
\* METHOD 1 candidate of min_tracks tracks; the candidate holds exactly
\* those unclaimed tracks of the directory.
C18_DirCandidate ==
    DetectDone =>
        \A c \in DOMAIN CallM2 :
           StartsWith(CallM2[c].key, KeyDir) =>
              \E r \in DOMAIN call.rows :
                 DirCandidateOf(CallM2[c], call.rows[r].directory)

\* a directory of two tracks, one of them claimed by METHOD 1: the candidate
\* of the directory holds the other one alone
C18_Witness ==
    /\ DetectDone
    /\ \E c \in DOMAIN CallM2, r \in DOMAIN call.rows :
          /\ StartsWith(CallM2[c].key, KeyDir)
          /\ DirCandidateOf(CallM2[c], call.rows[r].directory)
          /\ Cardinality(InDirectory(call.rows[r].directory)) = 2
          /\ Len(CallM2[c].val) = 1

(***************************************************************************)
(* Directory candidates in METHOD 3 and METHOD 4                           *)
(***************************************************************************)
\* the normalized directory name of the key of a directory candidate
DirNameOfKey(k) == SubSeq(k, Len(KeyDir) + 1, Len(k))

\* C19: in METHOD 3 a directory candidate takes part through its normalized
\* directory name: when that name has similarity > 0.5 with the key of a
\* filename-key candidate, the two are merged (the claim as stated; the code
\* scores the key with its "dir:" prefix, which becomes part of the first
\* word of the name).
C19_DirByName ==
    DetectDone =>
        \A d, k \in KeySet :
           ( /\ StartsWith(d, KeyDir) /\ ~StartsWith(k, KeyDir)
             /\ Similar(DirNameOfKey(d), k) )
           => SameCandidate(d, k)

\* the track is in a candidate of min_tracks tracks, after METHOD 2 or after
\* METHOD 3, whatever its key
InAnyCandidate(id) ==
    \/ \E c \in DOMAIN CallM2 :
          Len(CallM2[c].val) >= call.min_tracks /\ id \in EntryIds(CallM2[c].val)
    \/ \E c \in DOMAIN CallM3 :
          Len(CallM3[c].val) >= call.min_tracks /\ id \in EntryIds(CallM3[c].val)

\* the same for the candidates of METHOD 3 whose key is not one of a directory
InFilenameCandidate(id) ==
    \E c \in DOMAIN CallM3 :
       /\ ~StartsWith(CallM3[c].key, KeyDir)
       /\ Len(CallM3[c].val) >= call.min_tracks
       /\ id \in EntryIds(CallM3[c].val)

\* C20: an orphan group is returned for a track only when include_tagged is
\* false and the track is in no candidate of METHOD 1, 2 or 3 that meets
\* min_tracks, filename-key and directory candidates alike (the claim as
\* stated).
C20_AnyCandidate ==
    DetectDone =>
        \A g \in DOMAIN call.response :
           call.response[g].is_orphan =>
              /\ ~call.include_tagged
              /\ \A id \in TrackIds(call.response[g]) : ~InAnyCandidate(id)

\* C20: an orphan group is returned for a track only when include_tagged is
\* false and the track is in no candidate that meets min_tracks after
\* METHOD 3 other than the candidate of a directory.
C20_FilenameCandidate ==
    DetectDone =>
        \A g \in DOMAIN call.response :
           call.response[g].is_orphan =>
              /\ ~call.include_tagged
              /\ \A id \in TrackIds(call.response[g]) : ~InFilenameCandidate(id)

\* an orphan group for a track that is also in the returned group of its
\* directory
C20_Witness ==
    /\ DetectDone /\ ~call.include_tagged /\ call.min_tracks = 2
    /\ \E g, h \in DOMAIN call.response :
          /\ call.response[g].is_orphan
          /\ ~call.response[h].is_orphan
          /\ call.response[h].track_count >= 2
          /\ TrackIds(call.response[g]) \subseteq TrackIds(call.response[h])
          /\ \A id \in TrackIds(call.response[g]) :
                InAnyCandidate(id) /\ ~InFilenameCandidate(id)

(***************************************************************************)
(* METHOD 5 and the claimed tracks                                         *)
(***************************************************************************)
\* the rows METHOD 5 does not skip as claimed
UnclaimedRows == {r \in DOMAIN call.rows : call.rows[r].id \notin CallClaimedM4}

\* the row has an effective album (matched_album, else album) longer than 2
HasEffectiveAlbum(r) ==
    Truthy(EffectiveAlbum(call.rows[r])) /\ Len(EffectiveAlbum(call.rows[r])) > 2

\* the two rows are in one album group
SameAlbumGroup(r, q) ==
    \E a \in DOMAIN CallAlbumGroups :
       {call.rows[r].id, call.rows[q].id} \subseteq EntryIds(CallAlbumGroups[a].val)

\* C21: METHOD 5 groups the unclaimed tracks by the normalized form of their
\* effective album, matched_album when non-empty and album otherwise: two
\* unclaimed tracks with effective albums longer than 2 characters are in the
\* same album group exactly when these normalize to the same text, and an
\* album group is returned, flagged is_album_group, only when it has
\* min_tracks tracks (the claim as stated; the code reads album first and
\* matched_album only when album is empty).
C21_EffectiveAlbum ==
    DetectDone =>
        /\ \A r, q \in UnclaimedRows :
              (HasEffectiveAlbum(r) /\ HasEffectiveAlbum(q)) =>
                 ( SameAlbumGroup(r, q)
                   <=> NormalizedAlbum(call.rows[r]) = NormalizedAlbum(call.rows[q]) )
        /\ \A g \in DOMAIN call.response :
              call.response[g].is_album_group =>
                 call.response[g].track_count >= call.min_tracks

\* the track is in a returned group
Returned(id) == \E g \in DOMAIN call.response : id \in TrackIds(call.response[g])

\* C22: every track METHOD 4 or METHOD 5 skips as already claimed is in a
\* group of the returned list, and the de-duplication by track_id leaves
\* every claiming candidate with min_tracks tracks.
C22_ClaimedReturned ==
    DetectDone =>
        /\ \A id \in CallClaimedM4 : Returned(id)
        /\ \A r \in DOMAIN call.rows :
              ~Unclaimed(call.rows[r].id) => Returned(call.rows[r].id)
        /\ \A c \in DOMAIN CallM3 :
              ( /\ ~StartsWith(CallM3[c].key, KeyDir)
                /\ Len(CallM3[c].val) >= call.min_tracks )
              => Cardinality(EntryIds(CallM3[c].val)) >= call.min_tracks

\* a claiming candidate that holds a track twice, returned with each of its
\* tracks once, beside a track that is claimed by no candidate
C22_Witness ==
    /\ DetectDone /\ call.min_tracks = 2
    /\ \E c \in DOMAIN CallM3 :
          /\ ~StartsWith(CallM3[c].key, KeyDir)
          /\ Len(CallM3[c].val) = 3
          /\ Cardinality(EntryIds(CallM3[c].val)) = 2
          /\ EntryIds(CallM3[c].val) \subseteq CallClaimedM4
          /\ \E g \in DOMAIN call.response :
                TrackIds(call.response[g]) = EntryIds(CallM3[c].val)
    /\ \E r \in DOMAIN call.rows : call.rows[r].id \notin CallClaimedM4

(***************************************************************************)
(* series_name and the suggestions of a group                              *)
(***************************************************************************)
\* the members of an emitted candidate: its tracks, each once, in the order
\* they were first added
Members(c) == unique_tracks(CallEmitted[c].val)

\* how often a value occurs in a list, and the most frequent value of a list,
\* the first-encountered one among equally frequent values
Occurrences(vals, v) == Cardinality({i \in DOMAIN vals : vals[i] = v})
MostFrequent(vals) ==
    vals[CHOOSE i \in DOMAIN vals :
            /\ \A j \in DOMAIN vals : Occurrences(vals, vals[j]) <= Occurrences(vals, vals[i])
            /\ \A j \in 1..(i - 1) : Occurrences(vals, vals[j]) < Occurrences(vals, vals[i])]

\* the longest common prefix of the names
LongestCommonPrefix(names) ==
    LET shared(k) == \A i \in DOMAIN names :
                        Len(names[i]) >= k /\ SubSeq(names[i], 1, k) = SubSeq(names[1], 1, k)
        k == CHOOSE k \in 0..Len(names[1]) : shared(k) /\ ~shared(k + 1)
    IN  SubSeq(names[1], 1, k)

\* a name without its trailing spaces, hyphens and underscores
WithoutTrailingSeparators(name) ==
    LET j == CHOOSE j \in 0..Len(name) :
                /\ j = 0 \/ name[j] \notin Sep
                /\ \A i \in (j + 1)..Len(name) : name[i] \in Sep
    IN  SubSeq(name, 1, j)

\* the series_name the display names of the members give
NameOf(names) ==
    IF \E i \in DOMAIN names : Occurrences(names, names[i]) > 1
    THEN MostFrequent(names)
    ELSE IF Len(WithoutTrailingSeparators(LongestCommonPrefix(names))) > 3
         THEN WithoutTrailingSeparators(LongestCommonPrefix(names))
         ELSE names[1]

DisplayNames(track_list) == [i \in DOMAIN track_list |-> track_list[i].display_name]

\* C23: the series_name of a non-orphan group is the most frequent display
\* name of its members if one occurs more than once (the first-encountered
\* among equally frequent ones), otherwise the longest common prefix of the
\* display names without trailing spaces, hyphens and underscores if that is
\* longer than 3 characters, otherwise the display name of the first member
\* (the claim as stated, the members being the tracks of the group).
C23_SeriesName ==
    DetectDone =>
        \A c \in DOMAIN CallEmitted :
           ~StartsWith(CallEmitted[c].key, KeyOrphan) =>
              EmittedEntries[c].series_name = NameOf(DisplayNames(Members(c)))

\* the row of a track of the finished call
RowOf(id) == call.rows[CHOOSE r \in DOMAIN call.rows : call.rows[r].id = id]

\* the effective artist of a row: matched_artist, else artist
EffectiveArtist(t) == OrElse(t.matched_artist, t.artist)

\* the non-empty effective artists of the members of a candidate
MemberArtists(c) ==
    NonEmpty([i \in DOMAIN Members(c) |-> EffectiveArtist(RowOf(Members(c)[i].track_id))])

\* C24: the suggested_artist of a non-orphan group is the most frequent
\* non-empty effective artist of its members, matched_artist when non-empty
\* and artist otherwise (the first-encountered on ties), and "Various" when
\* no member has one (the claim as stated; the code reads the artist column
\* alone).
C24_SuggestedArtist ==
    DetectDone =>
        \A c \in DOMAIN CallEmitted :
           ~StartsWith(CallEmitted[c].key, KeyOrphan) =>
              EmittedEntries[c].suggested_artist =
                 (IF MemberArtists(c) = <<>> THEN S_Various
                  ELSE MostFrequent(MemberArtists(c)))

(***************************************************************************)
(* detect_series between apply-album and remove-from-series (SpecConc)     *)
(***************************************************************************)
RowIds(rows) == {rows[r].id : r \in DOMAIN rows}

MapColumns(t) ==
    [t EXCEPT !.id = 0, !.filename = <<>>, !.directory = <<>>, !.duration = 0,
              !.status = "pending"]

\* C26: with include_tagged = false no track whose series_tagged is true is
\* in a returned group, of whatever kind, and the tagged tracks bear on the
\* result through the tagged-series map alone: the list is the one their
\* album, artist, genre, album_artist and cover columns give.
C26_TaggedLeftOut ==
    (DetectDone /\ ~call.include_tagged) =>
        /\ \A i \in DOMAIN tracks : tracks[i].series_tagged => ~Returned(tracks[i].id)
        /\ call.response =
              SeriesList(Candidates(call.rows,
                                    [k \in DOMAIN call.tagged_rows |->
                                        MapColumns(call.tagged_rows[k])],
                                    call.min_tracks, FALSE),
                         call.min_tracks)

\* a tagged track left out of the list while the untagged track beside it is
\* returned as an orphan of its series
C26_Witness ==
    /\ DetectDone /\ ~call.include_tagged
    /\ \E i, j \in DOMAIN tracks :
          /\ tracks[i].series_tagged /\ ~Returned(tracks[i].id)
          /\ ~tracks[j].series_tagged
          /\ \E g \in DOMAIN call.response :
                /\ call.response[g].is_orphan
                /\ TrackIds(call.response[g]) = {tracks[j].id}
                /\ call.response[g].matched_series = EffectiveAlbum(tracks[i])

(***************************************************************************)
(* The background jobs of apply-album                                      *)
(***************************************************************************)
StatusOrder ==
    <<"starting", "downloading_cover", "loading_tracks", "tagging",
      "updating_database", "completed">>

StatusRank(status) == CHOOSE n \in DOMAIN StatusOrder : StatusOrder[n] = status

Completed(job_id) ==
    /\ DictHas(tagging_jobs, job_id)
    /\ Job(job_id).status = "completed"
    /\ Job(job_id).completed_at /= None

\* C27: a call with fewer than five ids leaves tagging_jobs as it is and a
\* job only appears with a call of five ids or more, in status starting; the
\* status of a job is one of the six and never moves back in their order;
\* a status query for a job_id tagging_jobs does not hold (never given, or
\* cleaned up) answers status not_found, and the job's dict otherwise; and
\* every job reaches completed with completed_at set, whether its files are
\* written or fail.
C27_JobLifecycle ==
    /\ [][ /\ \A track_ids \in SmallBatches, in \in ApplyInputsAll, ok \in TrackIdSets :
                  ApplySeriesSync(track_ids, in, ok) => tagging_jobs' = tagging_jobs
           /\ \A job_id \in JobIds :
                  /\ (~DictHas(tagging_jobs, job_id) /\ DictHas(tagging_jobs', job_id)) =>
                        /\ DictGet(tagging_jobs', job_id).status = "starting"
                        /\ Len(DictGet(background', job_id).track_ids) >= SyncLimit
                  /\ (DictHas(tagging_jobs, job_id) /\ DictHas(tagging_jobs', job_id)) =>
                        /\ \E n \in DOMAIN StatusOrder :
                              StatusOrder[n] = DictGet(tagging_jobs', job_id).status
                        /\ StatusRank(Job(job_id).status)
                              <= StatusRank(DictGet(tagging_jobs', job_id).status)
                  /\ (DictHas(tagging_jobs, job_id) /\ ~DictHas(tagging_jobs', job_id)) =>
                        Completed(job_id)
           /\ (call.pc = "idle" /\ call'.op = "get_tagging_job_status") =>
                  \E job_id \in StatusIds :
                     call'.response =
                        IF DictHas(tagging_jobs, job_id)
                        THEN Job(job_id)
                        ELSE [status |-> "not_found", job_id |-> job_id]
         ]_vars
    /\ \A job_id \in JobIds : DictHas(tagging_jobs, job_id) ~> Completed(job_id)

\* a completed job one of whose files failed and another was written, and
\* the answer not_found to a query for the id of a job that is gone
C27_Witness ==
    /\ \E job_id \in JobIds :
          /\ Completed(job_id)
          /\ Job(job_id).errors /= <<>>
          /\ Job(job_id).written > 0
    /\ call.op = "get_tagging_job_status"
    /\ call.response.status = "not_found"

\* the requested ids of a job that the table holds
Existing(job_id) ==
    {id \in SeqRange(Task(job_id).track_ids) : \E i \in DOMAIN tracks : tracks[i].id = id}

\* C28: whenever a background job can be observed, processed = written +
\* len(errors) and written <= processed <= total; processed and written of
\* a job never decrease; and in a completed job processed = total, the
\* number of the requested ids that exist.
C28_JobCounters ==
    /\ [](\A job_id \in JobIds :
            DictHas(tagging_jobs, job_id) =>
               /\ Job(job_id).processed = Job(job_id).written + Len(Job(job_id).errors)
               /\ Job(job_id).written <= Job(job_id).processed
               /\ Job(job_id).processed <= Job(job_id).total
               /\ Job(job_id).status = "completed" =>
                     /\ Job(job_id).processed = Job(job_id).total
                     /\ Job(job_id).total = Cardinality(Existing(job_id)))
    /\ [][ \A job_id \in JobIds :
              (DictHas(tagging_jobs, job_id) /\ DictHas(tagging_jobs', job_id)) =>
                 /\ Job(job_id).processed <= DictGet(tagging_jobs', job_id).processed
                 /\ Job(job_id).written <= DictGet(tagging_jobs', job_id).written
         ]_vars

\* a completed job for five ids of which two exist: one file written, the
\* other failed
C28_Witness ==
    \E job_id \in JobIds :
       /\ DictHas(tagging_jobs, job_id)
       /\ Job(job_id).status = "completed"
       /\ Len(Task(job_id).track_ids) = SyncLimit
       /\ Job(job_id).total = 2
       /\ Job(job_id).processed = 2
       /\ Job(job_id).written = 1
       /\ Len(Job(job_id).errors) = 1

(***************************************************************************)
(* The suggestions of a returned group and of its tracks                   *)
(***************************************************************************)
\* the score of the file name of a track against a tagged series
ScoreAgainst(t, album_normalized) ==
    similarity_score(Extract(t.filename).normalized, album_normalized)

\* the tagged series the values of an orphan group are those of: one that
\* scores above one half and that no other outscores
BestSeriesOf(e, map) ==
    \E m \in DOMAIN map :
       /\ e.suggested_album = map[m].val.album
       /\ e.matched_series = map[m].val.album
       /\ e.suggested_artist = map[m].val.artist
       /\ e.suggested_genre = map[m].val.genre
       /\ e.suggested_album_artist = map[m].val.album_artist
       /\ FracGT(ScoreAgainst(e.tracks[1], map[m].key), FracHalf)
       /\ \A o \in DOMAIN map :
              ~FracGT(ScoreAgainst(e.tracks[1], map[o].key),
                      ScoreAgainst(e.tracks[1], map[m].key))

CarriesSuggestions(e) ==
    /\ e.suggested_album = e.series_name
    /\ \A k \in DOMAIN e.tracks :
          /\ e.tracks[k].suggested_album = e.suggested_album
          /\ e.tracks[k].suggested_artist = e.suggested_artist
          /\ e.tracks[k].suggested_genre = e.suggested_genre
          /\ e.tracks[k].suggested_album_artist = e.suggested_album_artist

\* C29: in every returned group suggested_album is the series_name and each
\* track of the group carries the suggested_album, suggested_artist,
\* suggested_genre and suggested_album_artist of the group; in an orphan
\* group they are the values of the best-matching tagged series, and in an
\* album group the album the tracks came with has given way to the
\* series_name.
C29_Suggestions ==
    DetectDone =>
       \A g \in DOMAIN call.response :
          /\ CarriesSuggestions(call.response[g])
          /\ call.response[g].is_orphan =>
                BestSeriesOf(call.response[g], TaggedSeriesMap(call.tagged_rows, 1, <<>>))

\* an album group of two tracks whose series_name is not the album they came
\* with
C29_Witness ==
    /\ DetectDone
    /\ \E g \in DOMAIN call.response :
          /\ call.response[g].track_count = 2
          /\ call.response[g].is_album_group
          /\ \E k \in DOMAIN call.response[g].tracks :
                call.response[g].series_name
                   /= OrElse(call.response[g].tracks[k].current_album,
                             call.response[g].tracks[k].matched_album)

(***************************************************************************)
(* Directories of the same name                                            *)
(***************************************************************************)
\* the directories of the rows, and the row a directory is first met at
Directories == {call.rows[r].directory : r \in DOMAIN call.rows}
FirstRow(d) == CHOOSE r \in InDirectory(d) : \A q \in InDirectory(d) : r <= q

NormalizedDir(d) == Strip(StripSpecial(DirName(d)))

\* the directory qualifies for promotion
Qualifies(d) ==
    /\ Cardinality(InDirectory(d)) >= call.min_tracks
    /\ Cardinality(FreeInDirectory(d)) >= call.min_tracks
    /\ Len(NormalizedDir(d)) > 3

\* the qualifying directory of this name that is processed last
LastOfName(d) ==
    /\ Qualifies(d)
    /\ \A e \in Directories :
          (Qualifies(e) /\ NormalizedDir(e) = NormalizedDir(d)) =>
             FirstRow(e) <= FirstRow(d)

\* the directory candidates METHOD 2 leaves
DirCandidates == {c \in DOMAIN CallM2 : StartsWith(CallM2[c].key, KeyDir)}

\* C30: METHOD 2 leaves at most one directory candidate per normalized
\* directory name; of the qualifying directories whose names normalize to
\* the same text, the candidate holds the unclaimed tracks of the one
\* processed last and of no other, and the tracks of the earlier ones are
\* in no directory candidate.
C30_OnePerName ==
    DetectDone =>
       /\ \A c, e \in DirCandidates : CallM2[c].key = CallM2[e].key => c = e
       /\ \A d \in Directories :
             LastOfName(d) =>
                \E c \in DirCandidates :
                   /\ CallM2[c].key = KeyDir \o NormalizedDir(d)
                   /\ EntryIds(CallM2[c].val) = {call.rows[r].id : r \in FreeInDirectory(d)}
       /\ \A d \in Directories :
             (Qualifies(d) /\ ~LastOfName(d)) =>
                \A c \in DirCandidates, r \in InDirectory(d) :
                   call.rows[r].id \notin EntryIds(CallM2[c].val)

\* two directories that qualify and whose names normalize to the same text:
\* the candidate holds the track of the second and not the one of the first
C30_Witness ==
    /\ DetectDone
    /\ \E d, e \in Directories :
          /\ d /= e /\ Qualifies(d) /\ Qualifies(e)
          /\ NormalizedDir(d) = NormalizedDir(e)
          /\ FirstRow(d) < FirstRow(e)
          /\ \E c \in DirCandidates :
                /\ EntryIds(CallM2[c].val) = {call.rows[r].id : r \in FreeInDirectory(e)}
                /\ \A r \in InDirectory(d) : call.rows[r].id \notin EntryIds(CallM2[c].val)

====
